---- MODULE Spec2Model ----
(***************************************************************************)
(* State-machine model of the nx-governance coordinator canister           *)
(* (src/rs/nx-gov-main): proposal store, lifecycle operations, vote        *)
(* accounting and the asynchronous message dispatcher.                     *)
(*                                                                         *)
(* Time is counted in units of config.min_voting_period (3 days), so the   *)
(* default min_voting_period is 1 tick.  Every update call is atomic up to *)
(* its next inter-canister call; each reply is handled by its own action.  *)
(***************************************************************************)
EXTENDS Integers, Sequences, FiniteSets, TLC

\* ---------------------------------------------------------------- bounds
\* capacity of the proposal store
MaxProposals == 2
\* last clock value
MaxTime == 3
\* largest tally and total voting power pushed in the lifecycle specification
MaxPower == 1
\* largest tally and total voting power pushed in the voting specification
MaxTally == 3

\* the largest sum of tallies in the rate specification
RateCap == 100

\* ------------------------------------------------------ program constants
\* Percentage<u16>: 40_000 = 100%
PercentScale == 40000
\* initialize calls let through by the bounded model
MaxInits == 2

\* the entries of the metadata log the model follows
MaxLog == 3

\* saturation value of an `as u16` cast
U16Max == 65535
\* default min_voting_period (3 days) expressed in ticks
MinVotingPeriod == 1
\* from_percent multiplies by 400
PercentUnit == 400

VARIABLES
    now,        \* ic_cdk::api::time()
    config,     \* CONFIG cell
    proposals,  \* PROPOSALS stable vector (index = proposal id, from 0)
    payloads,   \* PROPOSAL_PAYLOAD log
    execs,      \* PROPOSAL_EXEC map: proposal id -> list of ExecResult
    revokes,    \* PROPOSAL_REVOKE log (reason and revoked_at are not modelled)
    calls,      \* dispatches suspended on an inter-canister call
    sent,       \* inter-canister calls issued so far, per proposal
    roles,      \* the seven role vectors: role -> principals holding it
    inits,      \* the initialize calls that passed their assertions, in order
    metadatas,  \* PROPOSAL_METADATA log
    multisig    \* the multisig-voting canister: PROPOSAL_VOTES and its calls

vars ==
    <<now, config, proposals, payloads, execs, revokes, calls, sent, roles, inits,
      metadatas, multisig>>

\* ------------------------------------------------------------ data types
None == -1

Submitted == "Submitted"
ValidationFailed == "ValidationFailed"
Open == "Open"
Accepted == "Accepted"
Executing == "Executing"
Succeeded == "Succeeded"
Failed == "Failed"
Expired == "Expired"
Rejected == "Rejected"
Revoked == "Revoked"
QuorumNotMet == "QuorumNotMet"
ForceExecuting == "ForceExecuting"
ForceExecutionSucceeded == "ForceExecutionSucceeded"
ForceExecutionFailed == "ForceExecutionFailed"

NotStarted == "NotStarted"
PreValidating == "PreValidating"
PreValidateCallError == "PreValidateCallError"
PreValidateFailed == "PreValidateFailed"
StepExecuting == "StepExecuting"
ExecutionCallError == "ExecutionCallError"
PostValidating == "PostValidating"
PostValidateCallError == "PostValidateCallError"
PostValidateFailed == "PostValidateFailed"
StepSucceeded == "StepSucceeded"

\* enum ExecutionStepState
ExecutionStepState ==
    { NotStarted, PreValidating, PreValidateCallError, PreValidateFailed,
      StepExecuting, ExecutionCallError, PostValidating, PostValidateCallError,
      PostValidateFailed, StepSucceeded }

\* struct ExecutionStep; NoStep fills the slot of the variants that carry none
NoStep == [step |-> 0, state |-> "NoStep"]

\* ExecutionStep::new
NewStep(i) == [step |-> i, state |-> NotStarted]

\* enum ProposalState: a tag plus the ExecutionStep carried by
\* Executing / Failed / ForceExecuting / ForceExecutionFailed
St(tag) == [tag |-> tag, step |-> NoStep]

StStep(tag, s) == [tag |-> tag, step |-> s]

PlainTags ==
    { Submitted, ValidationFailed, Open, Accepted, Succeeded, Expired, Rejected,
      Revoked, QuorumNotMet, ForceExecutionSucceeded }

StepTags == { Executing, Failed, ForceExecuting, ForceExecutionFailed }

\* enum Schedule
At(t) == [kind |-> "At", t |-> t]

In(d) == [kind |-> "In", t |-> d]

\* Option<ProposalPassingThreshold>
NoThreshold == [some |-> FALSE, quorum |-> 0, passing_threshold |-> 0]

SomeThreshold(q, p) == [some |-> TRUE, quorum |-> q, passing_threshold |-> p]

\* Percentage::<u16>::from_percent
from_percent(p) == p * PercentUnit

\* ---------------------------------------------------------- pure helpers
Min(a, b) == IF a < b THEN a ELSE b

\* Option<u64> comparison `a > Some(b)` (None is below every Some)
OptGtSome(a, b) == a # None /\ a > b

\* Option<u64> comparison `Some(b) > a`
SomeGtOpt(b, a) == a = None \/ b > a

\* floor(log2(a / b)) for a, b > 0: the binary exponent of the f64 quotient
RECURSIVE FloorLog2(_, _)
FloorLog2(a, b) ==
    IF a >= 2 * b THEN FloorLog2(a, 2 * b) + 1
    ELSE IF a < b THEN FloorLog2(2 * a, b) - 1
    ELSE 0

\* 2^n modulo b
RECURSIVE Pow2Mod(_, _)
Pow2Mod(n, b) ==
    IF n = 0 THEN 1 % b
    ELSE IF n % 2 = 0
    THEN LET h == Pow2Mod(n \div 2, b) IN (h * h) % b
    ELSE (2 * Pow2Mod(n - 1, b)) % b

\* the f64 quotient a / b (53-bit significand, round to nearest even) times
\* 40_000.0 (rounded again) falls below the integer k = a * 40000 / b: the
\* division rounded down by the fraction r / b of a unit in the last place,
\* and that error times 40_000 exceeds half the spacing of the doubles below k
ProductFallsBelow(a, b, k) ==
    LET e == FloorLog2(a, b)
        n == 52 - e
        r == ((a % b) * Pow2Mod(n, b)) % b
        prev == ((a % b) * Pow2Mod(n - 1, b)) % b
        bit == IF n = 0 THEN (a \div b) % 2 ELSE (2 * prev) \div b
        down == 2 * r < b \/ (2 * r = b /\ bit = 0)
        ek == FloorLog2(k, 1)
        d == IF k = 2 ^ ek THEN ek - e - 2 ELSE ek - e - 1
    IN  down /\ r * PercentScale > b * (2 ^ d)

\* impl From<f64> for Percentage<u16> applied to num as f64 / den as f64: the
\* f64 quotient is multiplied by 40_000.0 and cast with `as u16` (truncating,
\* saturating, NaN -> 0). A quotient whose exact product with 40_000 is no
\* integer truncates to the floor of the exact product; an integer product k
\* comes out as k or, when the two roundings fall below it, as k - 1.
PercentageFromRatio(num, den) ==
    IF den = 0
    THEN (IF num > 0 THEN U16Max ELSE 0)
    ELSE IF num <= 0 THEN 0
    ELSE IF (num * PercentScale) % den # 0
    THEN Min((num * PercentScale) \div den, U16Max)
    ELSE LET k == (num * PercentScale) \div den
         IN  Min(IF ProductFallsBelow(num, den, k) THEN k - 1 ELSE k, U16Max)

\* ------------------------------------------------------- types.rs: Schedule
\* Schedule::is_absolute
is_absolute(s) == s.kind = "At"

\* Schedule::is_in_future
is_in_future(s, t) == IF s.kind = "At" THEN s.t > t ELSE TRUE

\* Schedule::convert_to_absolute
convert_to_absolute(s, t) == IF s.kind = "At" THEN s ELSE At(t + s.t)

\* Schedule::to_timestamp (None for a relative schedule)
to_timestamp(s) == IF s.kind = "At" THEN s.t ELSE None

\* ------------------------------------------- types.rs: passing threshold
\* Validate for Percentage<u16>
percentage_is_valid(x) == x <= PercentScale

\* Validate for ProposalPassingThreshold
threshold_is_valid(th) ==
    percentage_is_valid(th.quorum) /\ percentage_is_valid(th.passing_threshold)

\* ProposalPassingThreshold::all_fields_gte
all_fields_gte(th, other) ==
    th.quorum >= other.quorum /\ th.passing_threshold >= other.passing_threshold

\* --------------------------------------------- proposal.rs: ExecutionStep
\* the match arms of ExecutionStep::state_transition
StepTransitionAllowed(from, to) ==
    \/ from = NotStarted /\ to = PreValidating
    \/ from = PreValidating
         /\ to \in { PreValidateCallError, PreValidateFailed, StepExecuting }
    \/ from = StepExecuting /\ to \in { ExecutionCallError, PostValidating }
    \/ from = PostValidating
         /\ to \in { PostValidateCallError, PostValidateFailed, StepSucceeded }

\* ExecutionStep::state_transition: [ok, s]
step_state_transition(s, next) ==
    IF StepTransitionAllowed(s.state, next)
    THEN [ok |-> TRUE, s |-> [s EXCEPT !.state = next]]
    ELSE [ok |-> FALSE, s |-> s]

\* ------------------------------------------------- proposal.rs: Proposal
\* from_submit with the proposal opened at once
from_submitOpened(metadata_id, payload_id, activates, expires) ==
    [ metadata_id |-> metadata_id,
      payload_id |-> payload_id,
      created_at |-> now,
      activates |-> activates,
      expires |-> expires,
      validated |-> "None",
      voting_end_time |-> None,
      passing_threshold |-> NoThreshold,
      state |-> St(Open),
      votes_yes |-> 0,
      votes_no |-> 0,
      votes_abstain |-> 0,
      total_voting_power |-> 0 ]

\* Proposal::from_submit; auto_execute and proposer are written here only
\* and read by no operation, and are left out
from_submit(metadata_id, payload_id, activates, expires) ==
    [ metadata_id |-> metadata_id,
      payload_id |-> payload_id,
      created_at |-> now,
      activates |-> activates,
      expires |-> expires,
      validated |-> "None",
      voting_end_time |-> None,
      passing_threshold |-> NoThreshold,
      state |-> St(Submitted),
      votes_yes |-> 0,
      votes_no |-> 0,
      votes_abstain |-> 0,
      total_voting_power |-> 0 ]

\* state_transition with Revoked handled by the arm of Open instead of the
\* catch-all arm
TransitionAllowedRevokedAsOpen(from, to) ==
    \/ from = Submitted /\ to \in { Open, ValidationFailed }
    \/ from \in { Open, Revoked }
         /\ to \in { Accepted, Rejected, Revoked, QuorumNotMet, ForceExecuting }
    \/ from = Accepted /\ to = Executing
    \/ from = Executing /\ to \in { Executing, Succeeded, Failed, Expired }
    \/ from = ForceExecuting
         /\ to \in { ForceExecuting, ForceExecutionSucceeded, ForceExecutionFailed }

\* the match arms of Proposal::state_transition, on the variant tags
TransitionAllowed(from, to) ==
    \/ from = Submitted /\ to \in { Open, ValidationFailed }
    \/ from = Open
         /\ to \in { Accepted, Rejected, Revoked, QuorumNotMet, ForceExecuting }
    \/ from = Accepted /\ to = Executing
    \/ from = Executing /\ to \in { Executing, Succeeded, Failed, Expired }
    \/ from = ForceExecuting
         /\ to \in { ForceExecuting, ForceExecutionSucceeded, ForceExecutionFailed }

\* Proposal::state_transition: [ok, p]
state_transition(p, next) ==
    IF TransitionAllowed(p.state.tag, next.tag)
    THEN [ok |-> TRUE, p |-> [p EXCEPT !.state = next]]
    ELSE [ok |-> FALSE, p |-> p]

\* Proposal::execution_state_transition: [ok, p]
execution_state_transition(p, sub) ==
    IF p.state.tag \in { Executing, ForceExecuting }
    THEN LET r == step_state_transition(p.state.step, sub)
         IN  IF r.ok
             THEN [ok |-> TRUE, p |-> [p EXCEPT !.state.step = r.s]]
             ELSE [ok |-> FALSE, p |-> p]
    ELSE [ok |-> FALSE, p |-> p]

\* a variant of is_voteable that looks at the voting period only
is_voteableTimeOnly(p, t) == OptGtSome(p.voting_end_time, t)

\* is_voteable without the comparison of voting_end_time with the clock
is_voteableStateOnly(p, t) == p.state.tag = Open

\* Proposal::is_voteable
is_voteable(p, t) == p.state.tag = Open /\ OptGtSome(p.voting_end_time, t)

\* Proposal::is_expired
is_expired(p, t) == SomeGtOpt(t, p.voting_end_time)

\* the schedule window shared by is_executable and is_force_executable:
\* Option comparisons, so a relative schedule (None) fails `expires > now`
InWindow(p, t) ==
    /\ is_absolute(p.activates)
    /\ to_timestamp(p.activates) <= t
    /\ is_absolute(p.expires)
    /\ to_timestamp(p.expires) > t

\* is_executable with a proposal under execution let through
is_executableAlsoExecuting(p, t) ==
    p.state.tag \in { Accepted, Executing } /\ InWindow(p, t)

\* is_executable with the instant of expiry still inside the window
is_executableUntilExpiry(p, t) ==
    /\ p.state.tag = Accepted
    /\ is_absolute(p.activates)
    /\ to_timestamp(p.activates) <= t
    /\ is_absolute(p.expires)
    /\ to_timestamp(p.expires) >= t

\* is_executable without the schedule window
is_executableStateOnly(p, t) == p.state.tag = Accepted

\* Proposal::is_executable
is_executable(p, t) == p.state.tag = Accepted /\ InWindow(p, t)

\* is_force_executable without the schedule window
is_force_executableStateOnly(p, t) == p.state.tag = Open

\* Proposal::is_force_executable
is_force_executable(p, t) == p.state.tag = Open /\ InWindow(p, t)

\* Proposal::current_participation_rate
current_participation_rate(p) ==
    PercentageFromRatio(p.votes_yes + p.votes_no + p.votes_abstain,
                        p.total_voting_power)

\* Proposal::current_yes_rate
current_yes_rate(p) ==
    PercentageFromRatio(p.votes_yes, p.votes_yes + p.votes_no)

\* Proposal::absolute_majority_reached
absolute_majority_reached(p) == p.votes_yes * 2 > p.total_voting_power

\* finalize_activation without finalize_expiration
finalize_schedulesActivationOnly(p, t) ==
    [p EXCEPT !.activates = convert_to_absolute(p.activates, t)]

\* Proposal::finalize_activation followed by Proposal::finalize_expiration
finalize_schedules(p, t) ==
    [p EXCEPT !.activates = convert_to_absolute(p.activates, t),
              !.expires = convert_to_absolute(p.expires, t)]

\* Proposal::try_finalize_vote_result: res is "Ok", "Err" (StateTransitionError)
\* or "Panic" (unwrap of a missing passing_threshold); p is the record after it
try_finalize_vote_result(p, t) ==
    IF ~p.passing_threshold.some
    THEN [res |-> "Panic", p |-> p]
    ELSE IF ~is_expired(p, t)
    THEN IF /\ current_participation_rate(p) >= p.passing_threshold.quorum
            /\ absolute_majority_reached(p)
         THEN LET r == state_transition(p, St(Accepted))
              IN  IF r.ok
                  THEN [res |-> "Ok", p |-> finalize_schedules(r.p, t)]
                  ELSE [res |-> "Err", p |-> p]
         ELSE [res |-> "Ok", p |-> p]
    ELSE LET target ==
                 IF current_participation_rate(p) < p.passing_threshold.quorum
                 THEN QuorumNotMet
                 ELSE IF current_yes_rate(p) < p.passing_threshold.passing_threshold
                 THEN Rejected
                 ELSE Accepted
             r == state_transition(p, St(target))
         IN  IF r.ok
             THEN [res |-> "Ok", p |-> finalize_schedules(r.p, t)]
             ELSE [res |-> "Err", p |-> p]

\* ------------------------------------------------------ memory.rs: store
\* ids of the stored proposals
Ids == 0 .. (Len(proposals) - 1)

\* every id the bounded store can hold
AllIds == 0 .. (MaxProposals - 1)

\* get_proposal_by_id (on a proposals vector P)
Get(P, id) == P[id + 1]

\* set_proposal_by_id (on a proposals vector P)
Put(P, id, p) == [P EXCEPT ![id + 1] = p]

\* get_next_proposal_id
get_next_proposal_id == Len(proposals)

\* get_proposal_states(skip, take)
get_proposal_states(skip, take) ==
    [i \in 1 .. Min(take, IF Len(proposals) > skip THEN Len(proposals) - skip ELSE 0)
        |-> proposals[skip + i].state]

\* get_proposal_payload_by_id
get_proposal_payload_by_id(payload_id) == payloads[payload_id + 1]

\* ProposalPayload::max_dependency_index (None for no dependency)
max_dependency_index(payload) ==
    IF Len(payload.depends_on) = 0
    THEN None
    ELSE CHOOSE m \in { payload.depends_on[k] : k \in 1 .. Len(payload.depends_on) } :
             \A k \in 1 .. Len(payload.depends_on) : payload.depends_on[k] <= m

\* --------------------------------------------------- main.rs: operations
\* ProposalMetadata::is_valid
metadata_is_valid(metadata) == metadata.name # "" /\ metadata.description # ""

\* ProposalPayload::is_valid: no message with an empty method name
payload_is_valid(payload) ==
    \A k \in 1 .. Len(payload.messages) : payload.messages[k].method # ""

\* the assertions of submit with a dependency on the new id itself let through
submit_asserts_holdSelfDependency(payload, expires) ==
    /\ is_in_future(expires, now)
    /\ max_dependency_index(payload) <= Len(proposals)

\* the assertions of submit on expires and on the dependencies; a failed
\* assertion traps and nothing is stored
submit_asserts_hold(payload, expires) ==
    /\ is_in_future(expires, now)
    /\ max_dependency_index(payload) < Len(proposals)

\* the appends of submit at which the stable memory may refuse to grow
MemoryFailures == { "metadata", "payload", "proposal" }

\* submit when the append named by `fails` returns an error ("none": every
\* append succeeds). The first assertion traps before anything is written;
\* an append that fails makes submit return MemoryError through `?`, which is
\* a reply, not a trap, so what was appended before it stays; the assertion
\* on the dependencies comes after the three appends and traps, which rolls
\* them back. The validator hook of the deployed configuration is None, so
\* push_timer_task is not reached.
submit_with_memory(fails, metadata, payload, activates, expires) ==
    LET out(res, id, M, Y, P) ==
            [res |-> res, id |-> id, metadatas |-> M, payloads |-> Y, proposals |-> P]
        M2 == Append(metadatas, metadata)
        Y2 == Append(payloads, payload)
        P2 == Append(proposals,
                     from_submit(Len(metadatas), Len(payloads), activates, expires))
    IN  IF ~(/\ metadata_is_valid(metadata)
             /\ payload_is_valid(payload)
             /\ is_in_future(expires, now))
        THEN out("Trap", None, metadatas, payloads, proposals)
        ELSE IF fails = "metadata"
        THEN out("MemoryError", None, metadatas, payloads, proposals)
        ELSE IF fails = "payload"
        THEN out("MemoryError", None, M2, payloads, proposals)
        ELSE IF fails = "proposal"
        THEN out("MemoryError", None, M2, Y2, proposals)
        ELSE IF ~submit_asserts_hold(payload, expires)
        THEN out("Trap", None, metadatas, payloads, proposals)
        ELSE out("Ok", Len(proposals), M2, Y2, P2)

\* submit: "Ok" with the metadata, the payload and the proposal appended (the
\* new id is the former length of the proposals vector), or "Trap" with the
\* stores as they were
submit(metadata, payload, activates, expires) ==
    submit_with_memory("none", metadata, payload, activates, expires)

SubmitProposal(metadata, payload, activates, expires) ==
    /\ Len(proposals) < MaxProposals
    /\ metadatas' = submit(metadata, payload, activates, expires).metadatas
    /\ payloads' = submit(metadata, payload, activates, expires).payloads
    /\ proposals' = submit(metadata, payload, activates, expires).proposals
    /\ UNCHANGED <<now, config, execs, revokes, calls, sent, roles, inits, multisig>>

\* a submit during which an append fails
SubmitMemoryError(fails, metadata, payload, activates, expires) ==
    LET o == submit_with_memory(fails, metadata, payload, activates, expires)
    IN  /\ Len(metadatas) < MaxLog
        /\ metadatas' = o.metadatas
        /\ payloads' = o.payloads
        /\ proposals' = o.proposals
        /\ UNCHANGED <<now, config, execs, revokes, calls, sent, roles, inits, multisig>>

\* ProposalMetadata
Metadata(name, description) == [name |-> name, description |-> description]

\* submit with a metadata that is valid
Submit(payload, activates, expires) ==
    SubmitProposal(Metadata("name", "description"), payload, activates, expires)

\* what an operation on one proposal returns and the record the store holds
\* for the proposal afterwards
Outcome(res, p) == [res |-> res, p |-> p]

\* the InputError guard of validate
validate_input_ok(vet, th, validated) ==
    \/ ~validated
    \/ /\ th.some
       /\ threshold_is_valid(th)
       /\ all_fields_gte(th, config.min_passing_threshold)
       /\ vet # None
       /\ vet > now + config.min_voting_period

\* validate with the check of the state ahead of the check of the arguments
validateStateFirst(p, vet, th, validated) ==
    LET r == state_transition(p, St(IF validated THEN Open ELSE ValidationFailed))
        q == [r.p EXCEPT !.validated = IF validated THEN "True" ELSE "False",
                         !.voting_end_time = vet,
                         !.passing_threshold = th]
    IN  IF p.state # St(Submitted)
        THEN Outcome("IncorrectProposalState", p)
        ELSE IF ~validate_input_ok(vet, th, validated)
        THEN Outcome("InputError", p)
        ELSE IF ~r.ok
        THEN Outcome("StateTransitionError", p)
        ELSE Outcome("Ok", q)

\* validate on the stored record p
validate(p, vet, th, validated) ==
    LET r == state_transition(p, St(IF validated THEN Open ELSE ValidationFailed))
        q == [r.p EXCEPT !.validated = IF validated THEN "True" ELSE "False",
                         !.voting_end_time = vet,
                         !.passing_threshold = th]
    IN  IF ~validate_input_ok(vet, th, validated)
        THEN Outcome("InputError", p)
        ELSE IF p.state # St(Submitted)
        THEN Outcome("IncorrectProposalState", p)
        ELSE IF ~r.ok
        THEN Outcome("StateTransitionError", p)
        ELSE Outcome("Ok", q)

Validate(id, vet, th, validated) ==
    /\ id \in Ids
    /\ proposals' = Put(proposals, id, validate(Get(proposals, id), vet, th, validated).p)
    /\ UNCHANGED <<now, config, payloads, execs, revokes, calls, sent, roles,
                   inits, metadatas, multisig>>

\* the condition under which the vote operations call try_finalize_vote_result;
\* "Panic" when voting_end_time.unwrap() meets None
finalize_due(p) ==
    IF config.voting_may_end_early
    THEN "Yes"
    ELSE IF p.voting_end_time = None
    THEN "Panic"
    ELSE IF p.voting_end_time < now THEN "Yes" ELSE "No"

\* the common tail of the vote operations on the updated local copy q of the
\* stored record p: optional try_finalize_vote_result, then set_proposal_by_id
vote_tail(p, q) ==
    LET due == finalize_due(q)
        f == try_finalize_vote_result(q, now)
    IN  IF due = "Panic" \/ (due = "Yes" /\ f.res = "Panic")
        THEN Outcome("Trap", p)
        ELSE IF due = "Yes" /\ f.res = "Err"
        THEN Outcome("StateTransitionError", p)
        ELSE Outcome("Ok", IF due = "Yes" THEN f.p ELSE q)

\* the range check of update_vote_result on the updated local copy
vote_result_out_of_range(q) ==
    \/ q.votes_yes < 0
    \/ q.votes_no < 0
    \/ q.votes_abstain < 0
    \/ q.votes_yes + q.votes_no + q.votes_abstain >= q.total_voting_power

\* the increments with a tally that would turn negative clamped to zero
add_votesClamped(p, y, n, a) ==
    [p EXCEPT !.votes_yes = IF @ + y < 0 THEN 0 ELSE @ + y,
              !.votes_no = IF @ + n < 0 THEN 0 ELSE @ + n,
              !.votes_abstain = IF @ + a < 0 THEN 0 ELSE @ + a]

\* the increments applied by the vote operations
add_votes(p, y, n, a) ==
    [p EXCEPT !.votes_yes = @ + y, !.votes_no = @ + n, !.votes_abstain = @ + a]

\* update_vote_result with set_proposal_by_id moved before the range check
update_vote_resultStoresFirst(p, y, n, a) ==
    LET q == add_votes(p, y, n, a)
    IN  IF ~is_voteable(p, now)
        THEN Outcome("Expired", p)
        ELSE IF vote_result_out_of_range(q)
        THEN Outcome("ArithmeticError", q)
        ELSE vote_tail(p, q)

\* update_vote_result on the stored record p: every error returns before
\* set_proposal_by_id
update_vote_result(p, y, n, a) ==
    LET q == add_votes(p, y, n, a)
    IN  IF ~is_voteable(p, now)
        THEN Outcome("Expired", p)
        ELSE IF vote_result_out_of_range(q)
        THEN Outcome("ArithmeticError", p)
        ELSE vote_tail(p, q)

\* update_total_voting_power on the stored record p
update_total_voting_power(p, total) ==
    LET q == [p EXCEPT !.total_voting_power = total]
    IN  IF ~is_voteable(p, now)
        THEN Outcome("Expired", p)
        ELSE IF total < 0
        THEN Outcome("ArithmeticError", p)
        ELSE vote_tail(p, q)

\* update_vote_result_and_total_voting_power on the stored record p
update_vote_result_and_total_voting_power(p, y, n, a, total) ==
    LET q == [add_votes(p, y, n, a) EXCEPT !.total_voting_power = total]
    IN  IF ~is_voteable(p, now)
        THEN Outcome("Expired", p)
        ELSE IF total < 0
        THEN Outcome("ArithmeticError", p)
        ELSE IF q.votes_yes < 0 \/ q.votes_no < 0 \/ q.votes_abstain < 0
        THEN Outcome("ArithmeticError", p)
        ELSE vote_tail(p, q)

\* finalize_vote_result behind the guard of the vote updates
finalize_vote_resultGuarded(p) ==
    IF ~is_voteable(p, now) THEN Outcome("Expired", p) ELSE vote_tail(p, p)

\* finalize_vote_result that moves an Accepted proposal whose expires time
\* has elapsed to Expired
finalize_vote_resultExpiring(p) ==
    IF p.state.tag = Accepted /\ is_absolute(p.expires) /\ to_timestamp(p.expires) <= now
    THEN Outcome("Ok", [p EXCEPT !.state = St(Expired)])
    ELSE vote_tail(p, p)

\* finalize_vote_result on the stored record p: no guard on state or time
finalize_vote_result(p) == vote_tail(p, p)

\* a vote operation on proposal id with outcome o
VoteOp(id, o) ==
    /\ proposals' = Put(proposals, id, o.p)
    /\ UNCHANGED <<now, config, payloads, execs, revokes, calls, sent, roles,
                   inits, metadatas, multisig>>

UpdateVoteResult(id, y, n, a) ==
    /\ id \in Ids
    /\ VoteOp(id, update_vote_result(Get(proposals, id), y, n, a))

UpdateTotalVotingPower(id, total) ==
    /\ id \in Ids
    /\ VoteOp(id, update_total_voting_power(Get(proposals, id), total))

UpdateVoteResultAndTotal(id, y, n, a, total) ==
    /\ id \in Ids
    /\ VoteOp(id, update_vote_result_and_total_voting_power(Get(proposals, id), y, n, a, total))

FinalizeVoteResult(id) ==
    /\ id \in Ids
    /\ VoteOp(id, finalize_vote_result(Get(proposals, id)))

\* revoke with Accepted let through the check of the state
revokeAlsoAccepted(p) ==
    LET r == state_transition(p, St(Revoked))
    IN  IF p.state \notin { St(Open), St(Accepted) }
        THEN Outcome("IncorrectProposalState", p)
        ELSE IF ~r.ok
        THEN Outcome("StateTransitionError", p)
        ELSE Outcome("Ok", r.p)

\* revoke on the stored record p
revoke(p) ==
    LET r == state_transition(p, St(Revoked))
    IN  IF p.state # St(Open)
        THEN Outcome("IncorrectProposalState", p)
        ELSE IF ~r.ok
        THEN Outcome("StateTransitionError", p)
        ELSE Outcome("Ok", r.p)

Revoke(id) ==
    /\ id \in Ids
    /\ LET o == revoke(Get(proposals, id))
       IN  /\ proposals' = Put(proposals, id, o.p)
           /\ revokes' = IF o.res = "Ok"
                         THEN Append(revokes, [proposal_id |-> id])
                         ELSE revokes
    /\ UNCHANGED <<now, config, payloads, execs, calls, sent, roles,
                   inits, metadatas, multisig>>

\* get_proposal_revoke: the entry of the PROPOSAL_REVOKE log at position
\* `proposal_id`, if the log is that long
get_proposal_revoke(proposal_id) ==
    IF proposal_id < Len(revokes)
    THEN [some |-> TRUE, record |-> revokes[proposal_id + 1]]
    ELSE [some |-> FALSE, record |-> [proposal_id |-> None]]

\* -------------------------------------------------- main.rs: dispatcher
\* the match with Accepted moved to the arm of the success states
dependency_verdictAcceptedPasses(tag) ==
    IF tag \in { Succeeded, ForceExecutionSucceeded, Accepted }
    THEN "Ok"
    ELSE IF tag \in { Failed, ForceExecutionFailed, ValidationFailed, Expired,
                      Rejected, Revoked, QuorumNotMet }
    THEN "DependentProposalNotSucceeded"
    ELSE "DependentProposalNotReady"

\* the match with Revoked moved to the arm of the states a caller can retry
dependency_verdictRevokedRetries(tag) ==
    IF tag \in { Succeeded, ForceExecutionSucceeded }
    THEN "Ok"
    ELSE IF tag \in { Failed, ForceExecutionFailed, ValidationFailed, Expired,
                      Rejected, QuorumNotMet }
    THEN "DependentProposalNotSucceeded"
    ELSE "DependentProposalNotReady"

\* the match of validate_execution_dependency on one dependency's state
dependency_verdict(tag) ==
    IF tag \in { Succeeded, ForceExecutionSucceeded }
    THEN "Ok"
    ELSE IF tag \in { Failed, ForceExecutionFailed, ValidationFailed, Expired,
                      Rejected, Revoked, QuorumNotMet }
    THEN "DependentProposalNotSucceeded"
    ELSE "DependentProposalNotReady"

\* validate_execution_dependency: "Ok", or the error of the first dependency
\* (in list order) that is missing or not in a success state
validate_execution_dependency(deps) ==
    LET verdict(k) ==
            IF deps[k] \notin Ids
            THEN "InvalidIndex"
            ELSE dependency_verdict(Get(proposals, deps[k]).state.tag)
        bad == { k \in 1 .. Len(deps) : verdict(k) # "Ok" }
    IN  IF bad = {}
        THEN "Ok"
        ELSE verdict(CHOOSE k \in bad : \A j \in bad : k <= j)

\* the variant names used by execute (force = FALSE) and force_execute
ExecutingTag(force) == IF force THEN ForceExecuting ELSE Executing

FailedTag(force) == IF force THEN ForceExecutionFailed ELSE Failed

SucceededTag(force) == IF force THEN ForceExecutionSucceeded ELSE Succeeded

\* a dispatch suspended on the remote call `pc` of message i: `local` is the
\* Proposal held by execute / force_execute, `mlocal` the one held by
\* execute_message
Call(id, force, i, pc, local, mlocal) ==
    [id |-> id, force |-> force, i |-> i, pc |-> pc, local |-> local, mlocal |-> mlocal]

\* the effect of one atomic piece of a dispatch: the proposals vector it
\* leaves, the call it suspends on (if any), the remote call it issues (if
\* any) and what it returns ("Pending" while suspended)
Effect(P, susp, issue, res) == [P |-> P, susp |-> susp, issue |-> issue, res |-> res]

\* the head of the message loop of execute / force_execute at iteration i,
\* with local copy lp and stored proposals P; enters execute_message up to
\* its first remote call
DispatchLoop(id, force, i, lp, P) ==
    LET msgs == get_proposal_payload_by_id(lp.payload_id).messages
    IN  IF i < Len(msgs)
        THEN LET r == state_transition(lp, StStep(ExecutingTag(force), NewStep(i)))
                 P2 == Put(P, id, r.p)
                 kind == IF msgs[i + 1].pre THEN "pre" ELSE "main"
             IN  IF ~r.ok
                 THEN Effect(P, {}, <<>>, "StateTransitionError")
                 ELSE Effect(P2, { Call(id, force, i, kind, r.p, Get(P2, id)) },
                             << [step |-> i, kind |-> kind] >>, "Pending")
        ELSE LET r == state_transition(lp, St(SucceededTag(force)))
             IN  IF ~r.ok
                 THEN Effect(P, {}, <<>>, "StateTransitionError")
                 ELSE Effect(Put(P, id, r.p), {}, <<>>, "Ok")

\* the message loop without its break: after an error of execute_message the
\* next message is dispatched
MessageErrContinues(c, P) == DispatchLoop(c.id, c.force, c.i + 1, c.local, P)

\* execute / force_execute after execute_message returned an error: the
\* local copy moves to Failed(step) / ForceExecutionFailed(step) and is stored
MessageErr(c, P) ==
    LET r == state_transition(c.local, StStep(FailedTag(c.force), c.local.state.step))
    IN  IF c.local.state.tag # ExecutingTag(c.force)
        THEN Effect(P, {}, <<>>, "Ok")
        ELSE IF ~r.ok
        THEN Effect(P, {}, <<>>, "StateTransitionError")
        ELSE Effect(Put(P, c.id, r.p), {}, <<>>, "Ok")

\* execute / force_execute after execute_message returned Ok
MessageOk(c, P) == DispatchLoop(c.id, c.force, c.i + 1, c.local, P)

\* execute_message: an error arm (sub-state `sub`, then store, then return Err)
AbortStep(c, sub) ==
    LET r == execution_state_transition(c.mlocal, sub)
    IN  IF r.ok THEN MessageErr(c, Put(proposals, c.id, r.p)) ELSE MessageErr(c, proposals)

\* execute_message resumed with the reply of the pre-validate call
ReplyPre(c, outcome) ==
    IF outcome = "true"
    THEN LET r == execution_state_transition(c.mlocal, StepExecuting)
         IN  IF ~r.ok
             THEN MessageErr(c, proposals)
             ELSE Effect(proposals, { [c EXCEPT !.pc = "main", !.mlocal = r.p] },
                         << [step |-> c.i, kind |-> "main"] >>, "Pending")
    ELSE IF outcome = "false"
    THEN AbortStep(c, PreValidateFailed)
    ELSE AbortStep(c, PreValidateCallError)

\* execute_message resumed with the reply of the message call (the result
\* itself is appended by the action)
ReplyMain(c, outcome) ==
    LET msg == get_proposal_payload_by_id(c.local.payload_id).messages[c.i + 1]
    IN  IF outcome = "true"
        THEN LET r == execution_state_transition(c.mlocal, PostValidating)
                 P2 == Put(proposals, c.id, r.p)
                 r2 == execution_state_transition(r.p, StepSucceeded)
             IN  IF ~r.ok
                 THEN MessageErr(c, proposals)
                 ELSE IF msg.post
                 THEN Effect(P2, { [c EXCEPT !.pc = "post", !.mlocal = r.p] },
                             << [step |-> c.i, kind |-> "post"] >>, "Pending")
                 ELSE IF ~r2.ok
                 THEN MessageErr(c, P2)
                 ELSE MessageOk(c, Put(P2, c.id, r2.p))
        ELSE AbortStep(c, ExecutionCallError)

\* execute_message resumed with the reply of the post-validate call
ReplyPost(c, outcome) ==
    IF outcome = "true"
    THEN LET r == execution_state_transition(c.mlocal, StepSucceeded)
         IN  IF ~r.ok
             THEN MessageErr(c, proposals)
             ELSE MessageOk(c, Put(proposals, c.id, r.p))
    ELSE IF outcome = "false"
    THEN AbortStep(c, PostValidateFailed)
    ELSE AbortStep(c, PostValidateCallError)

\* execute_message resumed with the reply `outcome` of the call c waits for
Reply(c, outcome) ==
    IF c.pc = "pre"
    THEN ReplyPre(c, outcome)
    ELSE IF c.pc = "main" THEN ReplyMain(c, outcome) ELSE ReplyPost(c, outcome)

\* an operation that returns `res` without touching anything
Refuse(res) == Effect(proposals, {}, <<>>, res)

\* execute, up to its first remote call
execute(id) ==
    LET p == Get(proposals, id)
        f == try_finalize_vote_result(p, now)
        lp == IF p.state = St(Open) /\ f.res = "Ok" THEN f.p ELSE p
        dep == validate_execution_dependency(
                   get_proposal_payload_by_id(lp.payload_id).depends_on)
    IN  IF p.state = St(Open) /\ f.res = "Panic"
        THEN Refuse("Trap")
        ELSE IF p.state = St(Open) /\ f.res = "Err"
        THEN Refuse("StateTransitionError")
        ELSE IF ~is_executable(lp, now)
        THEN Refuse("IncorrectProposalState")
        ELSE IF dep # "Ok"
        THEN Refuse(dep)
        ELSE DispatchLoop(id, FALSE, 0, lp, proposals)

\* force_execute, up to its first remote call
force_execute(id) ==
    LET p == Get(proposals, id)
        dep == validate_execution_dependency(
                   get_proposal_payload_by_id(p.payload_id).depends_on)
    IN  IF ~is_force_executable(p, now)
        THEN Refuse("IncorrectProposalState")
        ELSE IF dep # "Ok"
        THEN Refuse(dep)
        ELSE DispatchLoop(id, TRUE, 0, p, proposals)

\* applies the effect e of a piece of the dispatch of proposal id; `done`
\* holds the suspended call this piece resumed
Apply(id, e, done) ==
    /\ proposals' = e.P
    /\ calls' = (calls \ done) \cup e.susp
    /\ sent' = [sent EXCEPT ![id] = @ \o e.issue]

Execute(id) ==
    /\ id \in Ids
    /\ Apply(id, execute(id), {})
    /\ UNCHANGED <<now, config, payloads, execs, revokes, roles,
                   inits, metadatas, multisig>>

ForceExecute(id) ==
    /\ id \in Ids
    /\ Apply(id, force_execute(id), {})
    /\ UNCHANGED <<now, config, payloads, execs, revokes, roles,
                   inits, metadatas, multisig>>

\* the reply (or reject) of the pre-validate call of a suspended dispatch
PreValidateReply(c, outcome) ==
    /\ c \in calls
    /\ c.pc = "pre"
    /\ Apply(c.id, ReplyPre(c, outcome), {c})
    /\ UNCHANGED <<now, config, payloads, execs, revokes, roles,
                   inits, metadatas, multisig>>

\* the reply (or reject) of the message call: add_execution_step_result first
MessageReply(c, outcome) ==
    /\ c \in calls
    /\ c.pc = "main"
    /\ execs' = [execs EXCEPT ![c.id] = Append(@, IF outcome = "true" THEN "Ok" ELSE "Err")]
    /\ Apply(c.id, ReplyMain(c, outcome), {c})
    /\ UNCHANGED <<now, config, payloads, revokes, roles,
                   inits, metadatas, multisig>>

\* the reply (or reject) of the post-validate call
PostValidateReply(c, outcome) ==
    /\ c \in calls
    /\ c.pc = "post"
    /\ Apply(c.id, ReplyPost(c, outcome), {c})
    /\ UNCHANGED <<now, config, payloads, execs, revokes, roles,
                   inits, metadatas, multisig>>

\* --------------------------------------------------------- environment
\* the clock advances
Tick ==
    /\ now < MaxTime
    /\ now' = now + 1
    /\ UNCHANGED <<config, proposals, payloads, execs, revokes, calls, sent, roles,
                   inits, metadatas, multisig>>

\* update_config by the admin: the model varies voting_may_end_early
UpdateConfig(early) ==
    /\ config' = [config EXCEPT !.voting_may_end_early = early]
    /\ UNCHANGED <<now, proposals, payloads, execs, revokes, calls, sent, roles,
                   inits, metadatas, multisig>>

\* ------------------------------------------------------- access.rs: roles
\* UserRole
UserRole ==
    { "Admin", "Proposer", "VoteManager", "Revoker", "Executor", "ForceExecutor",
      "Validator" }

\* the principals that call the canister: the canister itself, the anonymous
\* principal, the principal that operates the deployment
Principals == { "canister", "anonymous", "operator" }

\* the role vectors of a deployed canister: init makes the canister Admin and
\* the anonymous principal Proposer; initialize and add_role give the other
\* roles to the operator
DeployedRoles ==
    [ role \in UserRole |->
        IF role = "Admin" THEN << "canister" >>
        ELSE IF role = "Proposer" THEN << "anonymous" >>
        ELSE << "operator" >> ]

\* has_role: some entry of the role's vector is the principal
has_role(role, principal) == \E i \in 1 .. Len(roles[role]) : roles[role][i] = principal

\* a role check that an Admin passes whatever the role
require_caller_has_roleOrAdmin(role, caller) ==
    has_role(role, caller) \/ has_role("Admin", caller)

\* require_caller_has_role: FALSE stands for the trap
require_caller_has_role(role, caller) == has_role(role, caller)

\* the result of a trapped call to submit
SubmitTrapped ==
    [res |-> "Trap", id |-> None, metadatas |-> metadatas, payloads |-> payloads,
     proposals |-> proposals]

\* submit called by `caller`
submit_as(caller, metadata, payload, activates, expires) ==
    IF ~require_caller_has_role("Proposer", caller)
    THEN SubmitTrapped
    ELSE submit(metadata, payload, activates, expires)

\* validate called by `caller`
validate_as(caller, id, vet, th, validated) ==
    IF ~require_caller_has_role("Validator", caller)
    THEN Outcome("Trap", Get(proposals, id))
    ELSE validate(Get(proposals, id), vet, th, validated)

\* update_vote_result called by `caller`
update_vote_result_as(caller, id, y, n, a) ==
    IF ~require_caller_has_role("VoteManager", caller)
    THEN Outcome("Trap", Get(proposals, id))
    ELSE update_vote_result(Get(proposals, id), y, n, a)

\* update_total_voting_power called by `caller`
update_total_voting_power_as(caller, id, total) ==
    IF ~require_caller_has_role("VoteManager", caller)
    THEN Outcome("Trap", Get(proposals, id))
    ELSE update_total_voting_power(Get(proposals, id), total)

\* update_vote_result_and_total_voting_power called by `caller`
update_vote_result_and_total_voting_power_as(caller, id, y, n, a, total) ==
    IF ~require_caller_has_role("VoteManager", caller)
    THEN Outcome("Trap", Get(proposals, id))
    ELSE update_vote_result_and_total_voting_power(Get(proposals, id), y, n, a, total)

\* finalize_vote_result called by `caller`
finalize_vote_result_as(caller, id) ==
    IF ~require_caller_has_role("VoteManager", caller)
    THEN Outcome("Trap", Get(proposals, id))
    ELSE finalize_vote_result(Get(proposals, id))

\* revoke called by `caller`
revoke_as(caller, id) ==
    IF ~require_caller_has_role("Revoker", caller)
    THEN Outcome("Trap", Get(proposals, id))
    ELSE revoke(Get(proposals, id))

\* execute called by `caller`, up to its first remote call
execute_as(caller, id) ==
    IF ~require_caller_has_role("Executor", caller) THEN Refuse("Trap") ELSE execute(id)

\* force_execute called by `caller`, up to its first remote call
force_execute_as(caller, id) ==
    IF ~require_caller_has_role("ForceExecutor", caller)
    THEN Refuse("Trap")
    ELSE force_execute(id)

\* update_config called by `caller`: the result and the CONFIG cell after it
update_config_as(caller, early) ==
    IF ~require_caller_has_role("Admin", caller)
    THEN [res |-> "Trap", config |-> config]
    ELSE [res |-> "Ok", config |-> [config EXCEPT !.voting_may_end_early = early]]

\* add_role_internal: the result and the role vectors after it
add_role_internal(role, principal) ==
    IF has_role(role, principal)
    THEN [res |-> "AlreadyExists", roles |-> roles]
    ELSE [res |-> "Ok", roles |-> [roles EXCEPT ![role] = Append(@, principal)]]

\* add_role called by `caller`
add_role_as(caller, role, principal) ==
    IF ~require_caller_has_role("Admin", caller)
    THEN [res |-> "Trap", roles |-> roles]
    ELSE add_role_internal(role, principal)

\* the position of the first entry of vector r that is the principal (0: none)
position(r, principal) ==
    IF \E i \in 1 .. Len(r) : r[i] = principal
    THEN CHOOSE i \in 1 .. Len(r) :
             r[i] = principal /\ \A j \in 1 .. (i - 1) : r[j] # principal
    ELSE 0

\* _remove_role without the move of the last entry: the last entry is popped
_remove_rolePopOnly(r, principal) ==
    IF position(r, principal) = 0 THEN r ELSE SubSeq(r, 1, Len(r) - 1)

\* _remove_role on the vector r of the role: the last entry is written over
\* the first entry that is the principal, then popped
_remove_role(r, principal) ==
    IF position(r, principal) = 0
    THEN r
    ELSE SubSeq([r EXCEPT ![position(r, principal)] = r[Len(r)]], 1, Len(r) - 1)

\* remove_role called by `caller`
remove_role_as(caller, role, principal) ==
    IF ~require_caller_has_role("Admin", caller)
    THEN [res |-> "Trap", roles |-> roles]
    ELSE [res |-> "Ok", roles |-> [roles EXCEPT ![role] = _remove_role(@, principal)]]

\* clear_users_of_role called by `caller`
clear_users_of_role_as(caller, role) ==
    IF ~require_caller_has_role("Admin", caller)
    THEN [res |-> "Trap", roles |-> roles]
    ELSE [res |-> "Ok", roles |-> [roles EXCEPT ![role] = <<>>]]

\* the calls of a principal: the lifecycle operations behind the role check
SubmitAs(caller, payload, activates, expires) ==
    LET o == submit_as(caller, Metadata("name", "description"), payload, activates, expires)
    IN  /\ Len(proposals) < MaxProposals
        /\ metadatas' = o.metadatas
        /\ payloads' = o.payloads
        /\ proposals' = o.proposals
        /\ UNCHANGED <<now, config, execs, revokes, calls, sent, roles, inits, multisig>>

ValidateAs(caller, id, vet, th, validated) ==
    /\ id \in Ids
    /\ VoteOp(id, validate_as(caller, id, vet, th, validated))

UpdateVoteResultAs(caller, id, y, n, a) ==
    /\ id \in Ids
    /\ VoteOp(id, update_vote_result_as(caller, id, y, n, a))

UpdateTotalVotingPowerAs(caller, id, total) ==
    /\ id \in Ids
    /\ VoteOp(id, update_total_voting_power_as(caller, id, total))

UpdateVoteResultAndTotalAs(caller, id, y, n, a, total) ==
    /\ id \in Ids
    /\ VoteOp(id, update_vote_result_and_total_voting_power_as(caller, id, y, n, a, total))

FinalizeVoteResultAs(caller, id) ==
    /\ id \in Ids
    /\ VoteOp(id, finalize_vote_result_as(caller, id))

RevokeAs(caller, id) ==
    /\ id \in Ids
    /\ LET o == revoke_as(caller, id)
       IN  /\ proposals' = Put(proposals, id, o.p)
           /\ revokes' = IF o.res = "Ok"
                         THEN Append(revokes, [proposal_id |-> id])
                         ELSE revokes
    /\ UNCHANGED <<now, config, payloads, execs, calls, sent, roles,
                   inits, metadatas, multisig>>

ExecuteAs(caller, id) ==
    /\ id \in Ids
    /\ Apply(id, execute_as(caller, id), {})
    /\ UNCHANGED <<now, config, payloads, execs, revokes, roles,
                   inits, metadatas, multisig>>

ForceExecuteAs(caller, id) ==
    /\ id \in Ids
    /\ Apply(id, force_execute_as(caller, id), {})
    /\ UNCHANGED <<now, config, payloads, execs, revokes, roles,
                   inits, metadatas, multisig>>

UpdateConfigAs(caller, early) ==
    /\ config' = update_config_as(caller, early).config
    /\ UNCHANGED <<now, proposals, payloads, execs, revokes, calls, sent, roles,
                   inits, metadatas, multisig>>

\* a role operation with outcome o
RoleOp(o) ==
    /\ roles' = o.roles
    /\ UNCHANGED <<now, config, proposals, payloads, execs, revokes, calls, sent,
                   inits, metadatas, multisig>>

AddRole(caller, role, principal) == RoleOp(add_role_as(caller, role, principal))

RemoveRole(caller, role, principal) == RoleOp(remove_role_as(caller, role, principal))

ClearUsersOfRole(caller, role) == RoleOp(clear_users_of_role_as(caller, role))

\* ------------------------------------------------- lifecycle.rs: initialize
\* the controllers of the canister (ic_cdk::api::is_controller)
Controllers == { "operator" }

\* the role vectors after init: the canister is Admin, the anonymous principal
\* is Proposer
FreshRoles ==
    [ role \in UserRole |->
        IF role = "Admin" THEN << "canister" >>
        ELSE IF role = "Proposer" THEN << "anonymous" >>
        ELSE <<>> ]

\* the assertions of initialize and the expect on each add_role_internal: a
\* failed one traps
initialize_asserts_hold(caller, validator, vote_manager, executor) ==
    /\ caller \in Controllers
    /\ ~config.initialized
    /\ add_role_internal("Validator", validator).res = "Ok"
    /\ add_role_internal("VoteManager", vote_manager).res = "Ok"
    /\ add_role_internal("Executor", executor).res = "Ok"

\* initialize, up to its remote call to the validator: the three roles are
\* granted; config.initialized is left as it is
initialize(caller, validator, vote_manager, executor) ==
    IF initialize_asserts_hold(caller, validator, vote_manager, executor)
    THEN [res |-> "Pending",
          roles |-> [roles EXCEPT !["Validator"] = Append(@, validator),
                                  !["VoteManager"] = Append(@, vote_manager),
                                  !["Executor"] = Append(@, executor)]]
    ELSE [res |-> "Trap", roles |-> roles]

\* an initialize call that passed its assertions: the principals it names and
\* whether it has resumed from its remote call
InitCall(validator, vote_manager, executor, done) ==
    [validator |-> validator, vote_manager |-> vote_manager, executor |-> executor,
     done |-> done]

\* multisig-voting types.rs: ProposalState {expiration, state, vote_record}
MsProposalState(expiration, state, yes_votes, no_votes, abstain_votes) ==
    [expiration |-> expiration, state |-> state, yes_votes |-> yes_votes,
     no_votes |-> no_votes, abstain_votes |-> abstain_votes]

\* a key PROPOSAL_VOTES does not hold
NoProposalState == MsProposalState(None, "Absent", <<>>, <<>>, <<>>)

\* the multisig-voting canister after init(canister, 2, 2, [operator,
\* anonymous]): PROPOSAL_VOTES empty, the governance canister its admin,
\* the two signers, 2-of-2; syncs are the replies to sync_with_governance
\* not yet processed, cast the vote_proposal calls that returned Ok,
\* forwards the update_vote_result_and_total_voting_power(id, 1, 0, 0, 1)
\* calls issued, of which the first `delivered` have reached the engine
MultisigInit ==
    [votes |-> [id \in AllIds |-> NoProposalState],
     governance_canister |-> "canister",
     admins |-> { "canister" },
     signers |-> { "operator", "anonymous" },
     votes_required |-> 2,
     total_votes |-> 2,
     syncs |-> {},
     cast |-> <<>>,
     forwards |-> <<>>,
     delivered |-> 0]

Initialize(caller, validator, vote_manager, executor) ==
    LET o == initialize(caller, validator, vote_manager, executor)
    IN  /\ Len(inits) < MaxInits
        /\ roles' = o.roles
        /\ inits' = IF o.res = "Pending"
                    THEN Append(inits, InitCall(validator, vote_manager, executor, FALSE))
                    ELSE inits
        /\ UNCHANGED <<now, config, proposals, payloads, execs, revokes, calls, sent,
                       metadatas, multisig>>

\* initialize resumed by the answer of the validator (reply or reject: the
\* result is dropped): config_set_initialized
InitializeReply(k) ==
    /\ k \in 1 .. Len(inits)
    /\ ~inits[k].done
    /\ inits' = [inits EXCEPT ![k].done = TRUE]
    /\ config' = [config EXCEPT !.initialized = TRUE]
    /\ UNCHANGED <<now, proposals, payloads, execs, revokes, calls, sent, roles,
                   metadatas, multisig>>

\* update_config called by `caller` with a whole Config
update_config(caller, new_config) ==
    IF ~require_caller_has_role("Admin", caller)
    THEN [res |-> "Trap", config |-> config]
    ELSE [res |-> "Ok", config |-> new_config]

UpdateConfigTo(caller, new_config) ==
    /\ config' = update_config(caller, new_config).config
    /\ UNCHANGED <<now, proposals, payloads, execs, revokes, calls, sent, roles, inits,
                   metadatas, multisig>>

\* the default Config of the CONFIG cell
DefaultConfig ==
    [ initialized |-> FALSE,
      min_voting_period |-> MinVotingPeriod,
      min_passing_threshold |-> SomeThreshold(from_percent(20), from_percent(20)),
      voting_may_end_early |-> TRUE ]

\* ------------------------------------------------------- bounded inputs
\* CanisterMessage, reduced to whether it names validation targets and to its
\* method name
Msg(pre, post) == [pre |-> pre, post |-> post, method |-> "method"]

\* a CanisterMessage with an empty method name
NamelessMsg == [pre |-> FALSE, post |-> FALSE, method |-> ""]

\* ProposalPayload
Payload(deps, msgs) == [depends_on |-> deps, messages |-> msgs]

\* submit arguments (payload, activates, expires) of the lifecycle
\* specification: no message; one message without validation targets; two
\* messages, the first with both targets; one message and a dependency on
\* proposal 0; an expires that is not in the future
SubmitChoices ==
    { << Payload(<<>>, <<>>), At(0), At(MaxTime + 1) >>,
      << Payload(<<>>, << Msg(FALSE, FALSE) >>), At(0), At(MaxTime + 1) >>,
      << Payload(<<>>, << Msg(TRUE, TRUE), Msg(FALSE, FALSE) >>), At(0), At(MaxTime + 1) >>,
      << Payload(<< 0 >>, << Msg(FALSE, FALSE) >>), At(0), At(MaxTime + 1) >>,
      << Payload(<<>>, <<>>), At(0), At(0) >> }

\* validate arguments (voting_end_time, passing_threshold, validated)
ValidateChoices ==
    { << 2, SomeThreshold(from_percent(20), from_percent(20)), TRUE >>,
      << 1, SomeThreshold(from_percent(20), from_percent(20)), TRUE >>,
      << None, SomeThreshold(from_percent(20), from_percent(20)), TRUE >>,
      << 2, NoThreshold, TRUE >>,
      << 2, SomeThreshold(from_percent(10), from_percent(20)), TRUE >>,
      << None, NoThreshold, FALSE >> }

\* vote deltas pushed by the vote manager in the lifecycle specification
LifecycleDeltas == { << 1, 0, 0 >>, << 0, 1, 0 >>, << -1, 0, 0 >> }

\* the tallies the bounded model lets a vote operation produce
WithinCap(o, cap) == o.p.votes_yes + o.p.votes_no + o.p.votes_abstain <= cap

\* remote call outcomes: a reply of true, a reply of false, a reject
Outcomes == { "true", "false", "reject" }

Init ==
    /\ now = 0
    /\ config = [DefaultConfig EXCEPT !.initialized = TRUE]
    /\ proposals = <<>>
    /\ payloads = <<>>
    /\ execs = [id \in AllIds |-> <<>>]
    /\ revokes = <<>>
    /\ calls = {}
    /\ sent = [id \in AllIds |-> <<>>]
    /\ roles = DeployedRoles
    /\ inits = << InitCall("operator", "operator", "operator", TRUE) >>
    /\ metadatas = <<>>
    /\ multisig = MultisigInit

Next ==
    \/ \E a \in SubmitChoices : Submit(a[1], a[2], a[3])
    \/ \E id \in Ids, a \in ValidateChoices : Validate(id, a[1], a[2], a[3])
    \/ \E id \in Ids, d \in LifecycleDeltas :
           /\ WithinCap(update_vote_result(Get(proposals, id), d[1], d[2], d[3]), MaxPower)
           /\ UpdateVoteResult(id, d[1], d[2], d[3])
    \/ \E id \in Ids, total \in -1 .. MaxPower : UpdateTotalVotingPower(id, total)
    \/ \E id \in Ids, d \in LifecycleDeltas, total \in { 1 } :
           /\ WithinCap(update_vote_result_and_total_voting_power(
                            Get(proposals, id), d[1], d[2], d[3], total), MaxPower)
           /\ UpdateVoteResultAndTotal(id, d[1], d[2], d[3], total)
    \/ \E id \in Ids : FinalizeVoteResult(id)
    \/ \E id \in Ids : Revoke(id)
    \/ \E id \in Ids : Execute(id)
    \/ \E id \in Ids : ForceExecute(id)
    \/ \E c \in calls, o \in Outcomes : PreValidateReply(c, o)
    \/ \E c \in calls, o \in { "true", "reject" } : MessageReply(c, o)
    \/ \E early \in BOOLEAN : UpdateConfig(early)
    \/ Tick

Spec == Init /\ [][Next]_vars

\* ------------------------------------------------- top-level transitions
\* the transition table as the interface documents it
PermittedTable(from, to) ==
    \/ from = "Submitted" /\ to \in { "Open", "ValidationFailed" }
    \/ from = "Open"
         /\ to \in { "Accepted", "Rejected", "Revoked", "QuorumNotMet", "ForceExecuting" }
    \/ from = "Accepted" /\ to \in { "Executing" }
    \/ from = "Executing" /\ to \in { "Executing", "Succeeded", "Failed", "Expired" }
    \/ from = "ForceExecuting"
         /\ to \in { "ForceExecuting", "ForceExecutionSucceeded", "ForceExecutionFailed" }

\* the stored state of proposal id differs between the two states of a step
StateChanges(id) == proposals'[id + 1].state # proposals[id + 1].state

\* the variant names of ProposalState
AllTags == PlainTags \cup StepTags

\* the states one entry of the table leads to from a state of S
TableStep(S) == { t \in AllTags : \E m \in S : PermittedTable(m, t) }

\* `to` is reached from `from` by one or more entries of the table (no path
\* without a repeated state has more than four entries)
PermittedPath(from, to) ==
    LET S1 == TableStep({ from })
        S2 == S1 \cup TableStep(S1)
        S3 == S2 \cup TableStep(S2)
    IN  to \in S3 \cup TableStep(S3)

\* C1: a proposal is created in Submitted, and in every step every change of
\* the stored top-level state of a proposal follows entries of the permitted
\* transition table (execute on an Open proposal takes Open -> Accepted ->
\* Executing within one update); hence every stored state is reachable from
\* Submitted by permitted transitions and no operation moves a proposal out
\* of a state without an outgoing entry (the terminal states).
C1_ChangesFollowTable ==
    [][/\ \A id \in Ids :
              StateChanges(id)
                  => PermittedPath(proposals[id + 1].state.tag, proposals'[id + 1].state.tag)
       /\ \A id \in AllIds :
              id \notin Ids /\ id < Len(proposals')
                  => proposals'[id + 1].state.tag = "Submitted"]_vars

\* C1, reached: one proposal was finalized or revoked and another was
\* dispatched and failed, so transitions of the lifecycle and of the
\* dispatcher have happened
C1_Witness ==
    /\ \E id \in Ids : Get(proposals, id).state.tag \in { "Rejected", "QuorumNotMet", "Revoked" }
    /\ \E id \in Ids : Get(proposals, id).state.tag \in { "Failed", "ForceExecutionFailed" }

\* ------------------------------------------------------------- dispatch
\* execute accepts proposal id as executable: Accepted, or Open and finalized
\* to Accepted by the call itself, inside the schedule window
ExecuteEligible(id) ==
    LET p == Get(proposals, id)
        f == try_finalize_vote_result(p, now)
    IN  IF p.state.tag = "Open"
        THEN f.res = "Ok" /\ is_executable(f.p, now)
        ELSE is_executable(p, now)

\* force_execute accepts proposal id as force-executable
ForceEligible(id) == is_force_executable(Get(proposals, id), now)

\* the depends_on list of proposal id
DependsOn(id) == get_proposal_payload_by_id(Get(proposals, id).payload_id).depends_on

\* every proposal listed in depends_on is in a success state
DependenciesSucceeded(id) ==
    \A k \in 1 .. Len(DependsOn(id)) :
        /\ DependsOn(id)[k] \in Ids
        /\ Get(proposals, DependsOn(id)[k]).state.tag
               \in { "Succeeded", "ForceExecutionSucceeded" }

\* the dispatch goes on (suspended on its next remote call) or has ended in
\* the success state, returning Ok
GoesOnOrSucceeds(e, id, force) ==
    \/ e.res = "Pending"
    \/ /\ e.res = "Ok"
       /\ Get(e.P, id).state.tag = (IF force THEN "ForceExecutionSucceeded" ELSE "Succeeded")

\* C2 as stated: a dispatch of an eligible proposal with satisfied
\* dependencies in which every remote call succeeds ends in Succeeded
\* (ForceExecutionSucceeded): execute / force_execute on such a proposal
\* suspends on a remote call or ends in the success state, and so does every
\* resumption of a suspended dispatch by a successful reply.
C2_AllCallsSucceedEndsSucceeded ==
    /\ \A id \in Ids :
           ExecuteEligible(id) /\ DependenciesSucceeded(id)
               => GoesOnOrSucceeds(execute(id), id, FALSE)
    /\ \A id \in Ids :
           ForceEligible(id) /\ DependenciesSucceeded(id)
               => GoesOnOrSucceeds(force_execute(id), id, TRUE)
    /\ \A c \in calls : GoesOnOrSucceeds(Reply(c, "true"), c.id, c.force)

\* the reply `outcome` of the remote call `pc` aborts the message
Aborts(pc, outcome) ==
    \/ pc \in { "pre", "post" } /\ outcome \in { "false", "reject" }
    \/ pc = "main" /\ outcome = "reject"

\* the error leaf sub-state documented for an abort
ErrorLeaf(pc, outcome) ==
    IF pc = "pre"
    THEN (IF outcome = "false" THEN "PreValidateFailed" ELSE "PreValidateCallError")
    ELSE IF pc = "main"
    THEN "ExecutionCallError"
    ELSE (IF outcome = "false" THEN "PostValidateFailed" ELSE "PostValidateCallError")

\* the error documented for an abort
AbortError(pc, outcome) ==
    IF pc \in { "pre", "post" } /\ outcome = "false"
    THEN (IF pc = "pre" THEN "PreValidateFailed" ELSE "PostValidateFailed")
    ELSE "InterCanisterCallError"

\* C3 as stated: when message i aborts, the stored state becomes Failed(step)
\* (ForceExecutionFailed(step)) with step index i and the error leaf that
\* caused the abort; so a stored Failed / ForceExecutionFailed state always
\* carries one of the five error leaves.
C3_FailedStepCarriesErrorLeaf ==
    /\ \A c \in calls, o \in Outcomes :
           Aborts(c.pc, o)
               => Get(Reply(c, o).P, c.id).state
                      = [tag |-> IF c.force THEN "ForceExecutionFailed" ELSE "Failed",
                         step |-> [step |-> c.i, state |-> ErrorLeaf(c.pc, o)]]
    /\ \A id \in Ids :
           Get(proposals, id).state.tag \in { "Failed", "ForceExecutionFailed" }
               => Get(proposals, id).state.step.state
                      \in { "PreValidateCallError", "PreValidateFailed", "ExecutionCallError",
                            "PostValidateCallError", "PostValidateFailed" }

\* C4 as stated: when a message aborts, execute / force_execute returns the
\* error of the abort, and never Ok for a dispatch that ended in Failed /
\* ForceExecutionFailed.
C4_AbortReturnsItsError ==
    \A c \in calls, o \in Outcomes :
        /\ Aborts(c.pc, o) => Reply(c, o).res = AbortError(c.pc, o)
        /\ Get(Reply(c, o).P, c.id).state.tag \in { "Failed", "ForceExecutionFailed" }
               => Reply(c, o).res # "Ok"

\* no dispatch of proposal id is suspended on a remote call
NotInFlight(id) == \A c \in calls : c.id # id

\* C5: a step that starts a dispatch of a proposal (issues a remote call for
\* it while none was in flight, or moves it to Executing / ForceExecuting)
\* happens only when all its dependencies are in a success state, and a call
\* of execute or force_execute on a proposal with an unsatisfied dependency
\* changes no proposal and issues no call.
C5_NoDispatchBeforeDependencies ==
    [][\A id \in Ids :
           /\ \/ NotInFlight(id) /\ sent'[id] # sent[id]
              \/ /\ proposals[id + 1].state.tag \notin { "Executing", "ForceExecuting" }
                 /\ proposals'[id + 1].state.tag \in { "Executing", "ForceExecuting" }
              => DependenciesSucceeded(id)
           /\ (Execute(id) \/ ForceExecute(id)) /\ ~DependenciesSucceeded(id)
              => UNCHANGED <<proposals, calls, sent, execs>>]_vars

\* C5, reached: a proposal that execute and force_execute would otherwise
\* dispatch has an unsatisfied dependency
C5_Witness ==
    \E id \in Ids :
        /\ DependsOn(id) # <<>>
        /\ ~DependenciesSucceeded(id)
        /\ ExecuteEligible(id)
        /\ ForceEligible(id)

FailureTerminal ==
    { "Failed", "ForceExecutionFailed", "ValidationFailed", "Expired", "Rejected",
      "Revoked", "QuorumNotMet" }

NonTerminal == { "Submitted", "Open", "Accepted", "Executing", "ForceExecuting" }

\* the error execute(B) owes to its single dependency A
DependencyError(A) ==
    IF Get(proposals, A).state.tag \in FailureTerminal
    THEN "DependentProposalNotSucceeded"
    ELSE "DependentProposalNotReady"

\* B depends on exactly one proposal, which is not in a success state
HasUnmetDependency(B) ==
    /\ Len(DependsOn(B)) = 1
    /\ DependsOn(B)[1] \in Ids
    /\ Get(proposals, DependsOn(B)[1]).state.tag \in FailureTerminal \cup NonTerminal

\* C6 as stated: with B.depends_on = [A], execute(B) returns
\* DependentProposalNotSucceeded when A is in a failure terminal state and
\* DependentProposalNotReady when A is non-terminal, whatever the state of B.
C6_DependencyErrorWhateverStateOfB ==
    \A B \in Ids :
        HasUnmetDependency(B) => execute(B).res = DependencyError(DependsOn(B)[1])

\* C6 amended: with B.depends_on = [A], execute(B) returns the dependency
\* error of A's state when B itself is executable (Accepted, or Open and
\* finalized to Accepted, inside its schedule window); when B is not, the
\* call fails before the dependencies are looked at, with another error.
C6_DependencyErrorWhenExecutable ==
    \A B \in Ids :
        HasUnmetDependency(B)
            => IF ExecuteEligible(B)
               THEN execute(B).res = DependencyError(DependsOn(B)[1])
               ELSE execute(B).res
                        \in { "IncorrectProposalState", "StateTransitionError", "Trap" }

\* C6, reached: an executable B whose dependency is in a failure terminal
\* state
C6_Witness ==
    \E B \in Ids :
        /\ HasUnmetDependency(B)
        /\ ExecuteEligible(B)
        /\ Get(proposals, DependsOn(B)[1]).state.tag \in FailureTerminal

\* ------------------------------------------------- voting specification
\* submit arguments of the voting specification: one message, absolute or
\* relative schedules
VoteSubmitChoices ==
    { << Payload(<<>>, << Msg(FALSE, FALSE) >>), At(0), At(MaxTime + 1) >>,
      << Payload(<<>>, << Msg(FALSE, FALSE) >>), In(0), In(2) >> }

\* validate arguments of the voting specification
VoteValidateChoices ==
    { << 2, SomeThreshold(from_percent(20), from_percent(20)), TRUE >>,
      << 3, SomeThreshold(from_percent(50), from_percent(50)), TRUE >>,
      << None, NoThreshold, FALSE >> }

\* vote deltas (yes, no, abstain) of the voting specification
VoteDeltas == (-1 .. 1) \X (-1 .. 1) \X (-1 .. 1)

\* total voting powers of the voting specification
VoteTotals == -1 .. MaxTally

\* one proposal, and every vote operation on it with every delta and total
VoteNext ==
    \/ \E a \in VoteSubmitChoices : proposals = <<>> /\ Submit(a[1], a[2], a[3])
    \/ \E id \in Ids, a \in VoteValidateChoices : Validate(id, a[1], a[2], a[3])
    \/ \E id \in Ids, d \in VoteDeltas :
           /\ WithinCap(update_vote_result(Get(proposals, id), d[1], d[2], d[3]), MaxTally)
           /\ UpdateVoteResult(id, d[1], d[2], d[3])
    \/ \E id \in Ids, total \in VoteTotals : UpdateTotalVotingPower(id, total)
    \/ \E id \in Ids, d \in VoteDeltas, total \in VoteTotals :
           /\ WithinCap(update_vote_result_and_total_voting_power(
                            Get(proposals, id), d[1], d[2], d[3], total), MaxTally)
           /\ UpdateVoteResultAndTotal(id, d[1], d[2], d[3], total)
    \/ \E id \in Ids : FinalizeVoteResult(id)
    \/ \E id \in Ids : Revoke(id)
    \/ \E early \in BOOLEAN : UpdateConfig(early)
    \/ Tick

VoteSpec == Init /\ [][VoteNext]_vars

\* ------------------------------------------------------------- tallies
\* the three tallies of a record
Tallies(p) == << p.votes_yes, p.votes_no, p.votes_abstain >>

\* the sum of the three tallies of a record
TallySum(p) == p.votes_yes + p.votes_no + p.votes_abstain

\* the tallies of p with the deltas d added
Added(p, d) == << p.votes_yes + d[1], p.votes_no + d[2], p.votes_abstain + d[3] >>

\* voteable as documented: Open and voting_end_time after the clock
Voteable(p) ==
    p.state.tag = "Open" /\ p.voting_end_time # None /\ p.voting_end_time > now

\* C7 as stated: in every reachable state every proposal has tallies >= 0
\* whose sum is at most its total voting power.
C7_TalliesWithinTotalVotingPower ==
    \A id \in Ids :
        LET p == Get(proposals, id)
        IN  /\ p.votes_yes >= 0
            /\ p.votes_no >= 0
            /\ p.votes_abstain >= 0
            /\ TallySum(p) <= p.total_voting_power

\* C8 as stated: update_vote_result on a voteable proposal returns Ok when
\* the resulting tallies are >= 0 and their sum is at most the total voting
\* power (equality included), and returns ArithmeticError only when a
\* resulting tally is negative or the sum exceeds the total voting power.
C8_SumEqualToTotalIsAccepted ==
    \A id \in Ids, d \in VoteDeltas :
        LET p == Get(proposals, id)
            q == Added(p, d)
            res == update_vote_result(p, d[1], d[2], d[3]).res
            legal == /\ q[1] >= 0
                     /\ q[2] >= 0
                     /\ q[3] >= 0
                     /\ q[1] + q[2] + q[3] <= p.total_voting_power
        IN  Voteable(p)
                => /\ legal => res = "Ok"
                   /\ res = "ArithmeticError" => ~legal

\* C9: each of the three vote operations returns Expired on a proposal that
\* is not voteable (not Open, or voting_end_time <= now), returns
\* ArithmeticError on a voteable proposal when a resulting tally or the
\* supplied total is negative, and leaves the stored record as it was
\* whenever it returns an error.
C9_VoteErrorsLeaveRecord ==
    \A id \in Ids, d \in VoteDeltas, total \in VoteTotals :
        LET p == Get(proposals, id)
            q == Added(p, d)
            negative == q[1] < 0 \/ q[2] < 0 \/ q[3] < 0
            o1 == update_vote_result(p, d[1], d[2], d[3])
            o2 == update_total_voting_power(p, total)
            o3 == update_vote_result_and_total_voting_power(p, d[1], d[2], d[3], total)
        IN  /\ ~Voteable(p)
                => o1.res = "Expired" /\ o2.res = "Expired" /\ o3.res = "Expired"
            /\ Voteable(p) /\ negative
                => o1.res = "ArithmeticError" /\ o3.res = "ArithmeticError"
            /\ Voteable(p) /\ total < 0
                => o2.res = "ArithmeticError" /\ o3.res = "ArithmeticError"
            /\ \A o \in { o1, o2, o3 } : o.res # "Ok" => o.p = p

\* C9, reached: an Open proposal with votes whose voting_end_time has passed,
\* which update_vote_result therefore refuses
C9_Witness ==
    \E id \in Ids :
        /\ Get(proposals, id).state.tag = "Open"
        /\ Get(proposals, id).voting_end_time # None
        /\ Get(proposals, id).voting_end_time <= now
        /\ TallySum(Get(proposals, id)) > 0
        /\ update_vote_result(Get(proposals, id), 0, 0, 1).res = "Expired"

\* update_vote_result with d on record p, then with -d on the stored result
Nullify(p, d) ==
    LET o1 == update_vote_result(p, d[1], d[2], d[3])
        o2 == update_vote_result(o1.p, -d[1], -d[2], -d[3])
    IN  [first |-> o1.res, second |-> o2.res, p |-> o2.p,
         finalized |-> o1.p.state # p.state \/ o2.p.state # p.state]

\* C10 as stated: update_vote_result with (a, b, c) immediately followed by
\* update_vote_result with (-a, -b, -c), neither finalizing, leaves the three
\* tallies as they were, also when one of the two calls is rejected.
C10_NullifyRestoresTallies ==
    \A id \in Ids, d \in VoteDeltas :
        LET p == Get(proposals, id)
            r == Nullify(p, d)
        IN  ~r.finalized => Tallies(r.p) = Tallies(p)

\* C10 amended: the pair of calls, neither finalizing, leaves the three
\* tallies as they were when both calls return Ok or both are rejected; when
\* exactly one is rejected, the tallies end moved by the deltas of the call
\* that returned Ok.
C10_NullifyWhenBothOrNeitherAccepted ==
    \A id \in Ids, d \in VoteDeltas :
        LET p == Get(proposals, id)
            r == Nullify(p, d)
        IN  ~r.finalized
                => /\ (r.first = "Ok") = (r.second = "Ok") => Tallies(r.p) = Tallies(p)
                   /\ r.first = "Ok" /\ r.second # "Ok" => Tallies(r.p) = Added(p, d)
                   /\ r.first # "Ok" /\ r.second = "Ok"
                          => Tallies(r.p) = Added(p, << -d[1], -d[2], -d[3] >>)

\* C10, reached: a proposal with votes on which a retraction and its inverse
\* both return Ok
C10_Witness ==
    \E id \in Ids :
        LET r == Nullify(Get(proposals, id), << -1, 0, 0 >>)
        IN  r.first = "Ok" /\ r.second = "Ok" /\ ~r.finalized

\* update_vote_result with d1 on record p, then with d2 on the stored result
InOrder(p, d1, d2) ==
    LET o1 == update_vote_result(p, d1[1], d1[2], d1[3])
        o2 == update_vote_result(o1.p, d2[1], d2[2], d2[3])
    IN  [first |-> o1.res, second |-> o2.res, p |-> o2.p,
         finalized |-> o1.p.state # p.state \/ o2.p.state # p.state]

\* C11 as stated: on a voteable proposal, two update_vote_result calls with
\* deltas d1 and d2, neither finalizing, leave the same three tallies in
\* either order.
C11_TallyCommutes ==
    \A id \in Ids, d1 \in VoteDeltas, d2 \in VoteDeltas :
        LET p == Get(proposals, id)
            A == InOrder(p, d1, d2)
            B == InOrder(p, d2, d1)
        IN  Voteable(p) /\ ~A.finalized /\ ~B.finalized
                => Tallies(A.p) = Tallies(B.p)

\* C11 amended: the two orders leave the same three tallies when each of the
\* two calls has the same result (Ok or the same error) in both orders, in
\* particular when all calls return Ok.
C11_TallyCommutesWhenSameResults ==
    \A id \in Ids, d1 \in VoteDeltas, d2 \in VoteDeltas :
        LET p == Get(proposals, id)
            A == InOrder(p, d1, d2)
            B == InOrder(p, d2, d1)
        IN  /\ Voteable(p)
            /\ ~A.finalized
            /\ ~B.finalized
            /\ A.first = B.second
            /\ A.second = B.first
            => Tallies(A.p) = Tallies(B.p)

\* C11, reached: a voteable proposal on which a yes vote and a no vote are
\* both accepted in either order without finalizing
C11_Witness ==
    \E id \in Ids :
        LET p == Get(proposals, id)
            A == InOrder(p, << 1, 0, 0 >>, << 0, 1, 0 >>)
            B == InOrder(p, << 0, 1, 0 >>, << 1, 0, 0 >>)
        IN  /\ Voteable(p)
            /\ A.first = "Ok" /\ A.second = "Ok" /\ B.first = "Ok" /\ B.second = "Ok"
            /\ ~A.finalized /\ ~B.finalized
            /\ Tallies(A.p) # Tallies(p)


\* ----------------------------------------------------------- validation
\* the arguments validate turns down before it looks at the proposal:
\* validated = true with a threshold that is absent, above 100% or below the
\* configured minimum, or with an end time that is absent or not later than
\* the clock plus the minimum voting period
ArgumentsTurnedDown(vet, th, validated) ==
    /\ validated
    /\ \/ ~th.some
       \/ th.quorum > 40000
       \/ th.passing_threshold > 40000
       \/ th.quorum < config.min_passing_threshold.quorum
       \/ th.passing_threshold < config.min_passing_threshold.passing_threshold
       \/ vet = None
       \/ vet <= now + config.min_voting_period

\* C12 as stated: validate on a proposal whose state is not Submitted returns
\* IncorrectProposalState and changes nothing.
C12_OtherStateIsIncorrectProposalState ==
    \A id \in Ids, a \in ValidateChoices :
        LET p == Get(proposals, id)
            o == validate(p, a[1], a[2], a[3])
        IN  p.state.tag # "Submitted"
                => o.res = "IncorrectProposalState" /\ o.p = p

\* C12 amended: validate changes a proposal only when its state is Submitted
\* (to Open with validated = true, to ValidationFailed with validated =
\* false, storing the validator-set fields, which were unset until then); on
\* a proposal in any other state it changes nothing and returns InputError
\* when the arguments are turned down, IncorrectProposalState otherwise, so
\* every call with validated = false returns IncorrectProposalState.
C12_ValidateOnlyFromSubmitted ==
    \A id \in Ids, a \in ValidateChoices :
        LET p == Get(proposals, id)
            o == validate(p, a[1], a[2], a[3])
        IN  /\ p.state.tag = "Submitted"
                => /\ p.validated = "None"
                   /\ p.voting_end_time = None
                   /\ ~p.passing_threshold.some
            /\ p.state.tag = "Submitted" /\ o.res = "Ok"
                => /\ o.p.state.tag = (IF a[3] THEN "Open" ELSE "ValidationFailed")
                   /\ o.p.validated = (IF a[3] THEN "True" ELSE "False")
            /\ p.state.tag = "Submitted" /\ o.res # "Ok" => o.p = p
            /\ p.state.tag # "Submitted"
                => /\ o.p = p
                   /\ o.res = (IF ArgumentsTurnedDown(a[1], a[2], a[3])
                               THEN "InputError"
                               ELSE "IncorrectProposalState")

\* C12, reached: a proposal turned down by the validator, on which a later
\* validate with validated = true returns IncorrectProposalState for
\* arguments that pass and InputError for arguments that do not
C12_Witness ==
    \E id \in Ids, a \in ValidateChoices, b \in ValidateChoices :
        LET p == Get(proposals, id)
        IN  /\ p.state.tag = "ValidationFailed"
            /\ p.validated = "False"
            /\ a[3] /\ b[3]
            /\ validate(p, a[1], a[2], a[3]).res = "IncorrectProposalState"
            /\ validate(p, b[1], b[2], b[3]).res = "InputError"


\* the arguments the interface requires of validate with validated = true: a
\* threshold that is present, at most 100% in both components and at least
\* the configured minimum, and an end time that is present and at least the
\* clock plus the minimum voting period
ArgumentsRequired(vet, th) ==
    /\ th.some
    /\ th.quorum <= 40000
    /\ th.passing_threshold <= 40000
    /\ th.quorum >= config.min_passing_threshold.quorum
    /\ th.passing_threshold >= config.min_passing_threshold.passing_threshold
    /\ vet # None
    /\ vet >= now + config.min_voting_period

\* C13: validate with validated = true on a Submitted proposal returns Ok if
\* and only if the threshold is present, valid and at least the minimum and
\* the end time is present and at least now + min_voting_period (equality
\* accepted); otherwise it returns InputError and leaves the proposal
\* unchanged.
C13_ValidateAcceptsExactlyRequiredArguments ==
    \A id \in Ids, a \in ValidateChoices :
        LET p == Get(proposals, id)
            o == validate(p, a[1], a[2], a[3])
        IN  p.state.tag = "Submitted" /\ a[3]
                => IF ArgumentsRequired(a[1], a[2])
                   THEN o.res = "Ok"
                   ELSE o.res = "InputError" /\ o.p = p


\* ------------------------------------------- validator-set fields, listing
\* get_all_open_proposal_ids_with_expiration: trap when voting_end_time
\* .unwrap() meets None on an Open proposal; list is the (index,
\* voting_end_time) pairs of the Open proposals in index order
get_all_open_proposal_ids_with_expiration ==
    LET pairs == [i \in 1 .. Len(proposals) |->
                     [id |-> i - 1, state |-> proposals[i].state,
                      end |-> proposals[i].voting_end_time]]
        IsOpen(e) == e.state = St(Open)
        open == SelectSeq(pairs, IsOpen)
    IN  [trap |-> \E i \in 1 .. Len(open) : open[i].end = None,
         list |-> [i \in 1 .. Len(open) |-> << open[i].id, open[i].end >>]]

\* every proposal that is neither Submitted nor ValidationFailed has
\* validated = true, an end time at least created_at + min_voting_period and
\* a threshold at least the configured minimum
OpenedCarryValidatorFields ==
    \A id \in Ids :
        LET p == Get(proposals, id)
        IN  p.state.tag \notin { "Submitted", "ValidationFailed" }
                => /\ p.validated = "True"
                   /\ p.voting_end_time # None
                   /\ p.voting_end_time >= p.created_at + config.min_voting_period
                   /\ p.passing_threshold.some
                   /\ p.passing_threshold.quorum >= config.min_passing_threshold.quorum
                   /\ p.passing_threshold.passing_threshold
                          >= config.min_passing_threshold.passing_threshold

\* the listing holds one pair per Open proposal, with its voting_end_time
ListingIsExact ==
    LET l == get_all_open_proposal_ids_with_expiration.list
    IN  /\ ~get_all_open_proposal_ids_with_expiration.trap
        /\ { l[i] : i \in 1 .. Len(l) }
               = { << id, Get(proposals, id).voting_end_time >> :
                       id \in { i \in Ids : Get(proposals, i).state.tag = "Open" } }
        /\ \A i, j \in 1 .. Len(l) : i < j => l[i][1] < l[j][1]

\* no finalization unwraps a missing threshold or end time
FinalizationMeetsNoMissingField ==
    \A id \in Ids : finalize_vote_result(Get(proposals, id)).res # "Trap"

\* C14: every proposal that is neither Submitted nor ValidationFailed has
\* validated = true, voting_end_time >= created_at + min_voting_period and
\* passing_threshold >= min_passing_threshold, both present; finalization
\* never meets a missing threshold or end time;
\* get_all_open_proposal_ids_with_expiration lists exactly the Open proposals
\* with their voting_end_time.
C14_ValidatorFieldsPresentOnceOpened ==
    /\ OpenedCarryValidatorFields
    /\ FinalizationMeetsNoMissingField
    /\ ListingIsExact


\* ---------------------------------------------------- rate specification
\* validate arguments of the rate specification: thresholds of 57% and of 20%
RateValidateChoices ==
    { << 2, SomeThreshold(from_percent(57), from_percent(57)), TRUE >>,
      << 2, SomeThreshold(from_percent(20), from_percent(20)), TRUE >> }

\* arguments (yes, no, abstain, total) of
\* update_vote_result_and_total_voting_power in the rate specification
RateVotes ==
    { << 57, 0, 0, 100 >>, << 0, 43, 0, 100 >>, << 0, 0, 57, 100 >>,
      << 51, 0, 0, 100 >>, << -57, 0, 0, 100 >>, << 1, 0, 0, 10 >> }

\* one proposal, pushed tallies of up to a hundred votes
RateNext ==
    \/ \E a \in VoteSubmitChoices : proposals = <<>> /\ Submit(a[1], a[2], a[3])
    \/ \E id \in Ids, a \in RateValidateChoices : Validate(id, a[1], a[2], a[3])
    \/ \E id \in Ids, v \in RateVotes :
           /\ WithinCap(update_vote_result_and_total_voting_power(
                            Get(proposals, id), v[1], v[2], v[3], v[4]), RateCap)
           /\ UpdateVoteResultAndTotal(id, v[1], v[2], v[3], v[4])
    \/ \E id \in Ids : FinalizeVoteResult(id)
    \/ \E early \in BOOLEAN : UpdateConfig(early)
    \/ Tick

RateSpec == Init /\ [][RateNext]_vars

\* ---------------------------------------------------------- finalization
\* the participation (yes + no + abstain) / total of record p is below q/40000
ParticipationBelow(p, q) ==
    (p.votes_yes + p.votes_no + p.votes_abstain) * 40000 < q * p.total_voting_power

\* the yes rate yes / (yes + no) of record p is below q/40000
YesRateBelow(p, q) == p.votes_yes * 40000 < q * (p.votes_yes + p.votes_no)

\* Open with the voting period elapsed, and both rates defined
ElapsedOpen(p) ==
    /\ p.state.tag = "Open"
    /\ p.voting_end_time # None
    /\ now > p.voting_end_time
    /\ p.total_voting_power > 0
    /\ p.votes_yes + p.votes_no > 0

\* C15: finalize_vote_result on an Open proposal whose voting period has
\* elapsed moves it to QuorumNotMet if participation < quorum, otherwise to
\* Rejected if yes_rate < pass_rate, otherwise to Accepted.
C15_ElapsedFinalizesByTallies ==
    \A id \in Ids :
        LET p == Get(proposals, id)
            o == finalize_vote_result(p)
            expected ==
                IF ParticipationBelow(p, p.passing_threshold.quorum)
                THEN "QuorumNotMet"
                ELSE IF YesRateBelow(p, p.passing_threshold.passing_threshold)
                THEN "Rejected"
                ELSE "Accepted"
        IN  ElapsedOpen(p) => o.res = "Ok" /\ o.p.state.tag = expected


\* C16: while the voting period has not elapsed, try_finalize_vote_result
\* moves an Open proposal to Accepted if and only if participation >= quorum
\* and votes_yes * 2 > total_voting_power; otherwise it leaves state, tallies
\* and schedules unchanged.
C16_EarlyAcceptanceOnlyByMajority ==
    \A id \in Ids :
        LET p == Get(proposals, id)
            f == try_finalize_vote_result(p, now)
        IN  /\ p.state.tag = "Open"
            /\ p.voting_end_time # None
            /\ now <= p.voting_end_time
            /\ p.total_voting_power > 0
            => /\ f.res = "Ok"
               /\ IF /\ ~ParticipationBelow(p, p.passing_threshold.quorum)
                     /\ p.votes_yes * 2 > p.total_voting_power
                  THEN f.p.state.tag = "Accepted"
                  ELSE f.p = p


VotingRunning(id) ==
    /\ proposals[id + 1].state.tag = "Open"
    /\ proposals[id + 1].voting_end_time # None
    /\ now <= proposals[id + 1].voting_end_time

\* C18: while voting_may_end_early is false and now <= voting_end_time, no
\* step takes an Open proposal to Accepted or Executing (or past them, to
\* Failed, Succeeded or Expired, which are entered from Executing only), and
\* no step issues one of its payload calls, force_execute apart.
C18_NoEarlyAcceptanceWhenDisabled ==
    [][\A id \in Ids :
           ~config.voting_may_end_early /\ VotingRunning(id)
               => \/ proposals'[id + 1].state.tag
                         \in { "ForceExecuting", "ForceExecutionFailed",
                               "ForceExecutionSucceeded" }
                  \/ /\ proposals'[id + 1].state.tag
                            \notin { "Accepted", "Executing", "Failed",
                                     "Succeeded", "Expired" }
                     /\ sent'[id] = sent[id]]_vars


\* ----------------------------------------------------------- revocation
\* the ProposalRevoke records of the log that name proposal id
RevokeRecords(id) == { i \in 1 .. Len(revokes) : revokes[i].proposal_id = id }

\* C19: revoke succeeds only on an Open proposal, whose state becomes Revoked
\* with exactly one ProposalRevoke record naming it appended; in every other
\* state it returns IncorrectProposalState and changes neither the proposal
\* nor the log, so the log holds one record for each Revoked proposal and
\* none for any other.
C19_RevokeOnlyFromOpen ==
    \A id \in Ids :
        LET p == Get(proposals, id)
            o == revoke(p)
        IN  /\ p.state.tag = "Open"
                => /\ o.res = "Ok"
                   /\ o.p = [p EXCEPT !.state = [tag |-> "Revoked", step |-> NoStep]]
            /\ p.state.tag # "Open" => o.res = "IncorrectProposalState" /\ o.p = p
            /\ Cardinality(RevokeRecords(id)) = (IF p.state.tag = "Revoked" THEN 1 ELSE 0)

\* C19, reached: a Revoked proposal with its record, next to a proposal
\* under force-execution on which revoke returns IncorrectProposalState
C19_Witness ==
    \E id \in Ids, other \in Ids :
        /\ Get(proposals, id).state.tag = "Revoked"
        /\ Cardinality(RevokeRecords(id)) = 1
        /\ Get(proposals, other).state.tag = "ForceExecuting"
        /\ revoke(Get(proposals, other)).res = "IncorrectProposalState"


\* -------------------------------------------------- window specification
\* submit arguments of the window specification: one message; a window open
\* from the start, a relative window fixed at acceptance, a window that opens
\* at 2 and closes at 3
WindowSubmitChoices ==
    { << Payload(<<>>, << Msg(FALSE, FALSE) >>), At(0), At(MaxTime + 1) >>,
      << Payload(<<>>, << Msg(FALSE, FALSE) >>), In(1), In(2) >>,
      << Payload(<<>>, << Msg(FALSE, FALSE) >>), At(2), At(3) >> }

\* one proposal, voted on and executed or force-executed inside and outside
\* its window
WindowNext ==
    \/ \E a \in WindowSubmitChoices : proposals = <<>> /\ Submit(a[1], a[2], a[3])
    \/ \E id \in Ids, a \in VoteValidateChoices : Validate(id, a[1], a[2], a[3])
    \/ \E id \in Ids, d \in LifecycleDeltas, total \in { 1 } :
           /\ WithinCap(update_vote_result_and_total_voting_power(
                            Get(proposals, id), d[1], d[2], d[3], total), MaxPower)
           /\ UpdateVoteResultAndTotal(id, d[1], d[2], d[3], total)
    \/ \E id \in Ids : FinalizeVoteResult(id)
    \/ \E id \in Ids : Execute(id)
    \/ \E id \in Ids : ForceExecute(id)
    \/ \E c \in calls, o \in { "true", "reject" } : MessageReply(c, o)
    \/ \E early \in BOOLEAN : UpdateConfig(early)
    \/ Tick

WindowSpec == Init /\ [][WindowNext]_vars

\* ------------------------------------------------------------ execution
\* Accepted, both schedules absolute, activates <= now < expires
Executable(p) ==
    /\ p.state.tag = "Accepted"
    /\ p.activates.kind = "At"
    /\ p.expires.kind = "At"
    /\ p.activates.t <= now
    /\ now < p.expires.t

\* C20: execute(id) issues a remote call or changes the stored proposals
\* only if the proposal is Accepted (or Open and moved to Accepted by
\* try_finalize_vote_result) with both schedules absolute and activates <=
\* now < expires; in every other case it returns IncorrectProposalState and
\* stores nothing, a finalization to Rejected or QuorumNotMet included.
C20_ExecuteOnlyWhenExecutable ==
    \A id \in Ids :
        LET p == Get(proposals, id)
            f == try_finalize_vote_result(p, now)
            at == IF p.state.tag = "Open" /\ f.res = "Ok" THEN f.p ELSE p
            e == execute(id)
        IN  /\ e.P # proposals \/ e.issue # <<>> \/ e.susp # {} => Executable(at)
            /\ ~Executable(at)
                   => /\ e.res = "IncorrectProposalState"
                      /\ e.P = proposals
                      /\ e.issue = <<>>
                      /\ e.susp = {}

\* C20, reached: an Accepted proposal whose window has closed, on which
\* execute returns IncorrectProposalState
C20_Witness ==
    \E id \in Ids :
        LET p == Get(proposals, id)
        IN  /\ p.state.tag = "Accepted"
            /\ p.expires.kind = "At"
            /\ now >= p.expires.t
            /\ execute(id).res = "IncorrectProposalState"


\* ------------------------------------------------------- force execution
\* the variants of the force-execution path
ForceTags == { "ForceExecuting", "ForceExecutionFailed", "ForceExecutionSucceeded" }

\* a schedule of record p is relative
HasRelativeSchedule(p) == p.activates.kind = "In" \/ p.expires.kind = "In"

\* C21: a proposal enters ForceExecuting only from Open with both schedules
\* absolute and activates <= now < expires; force_execute on a proposal with
\* a relative schedule returns IncorrectProposalState and changes nothing;
\* the schedules of a proposal change only in a step that takes it from Open
\* off the force-execution path, so a proposal submitted with a relative
\* schedule never enters ForceExecuting.
C21_ForceExecutingOnlyFromOpenInWindow ==
    [][\A id \in Ids :
           LET p == proposals[id + 1]
               q == proposals'[id + 1]
               e == force_execute(id)
           IN  /\ q.state.tag = "ForceExecuting" /\ p.state.tag # "ForceExecuting"
                   => /\ p.state.tag = "Open"
                      /\ ~HasRelativeSchedule(p)
                      /\ p.activates.t <= now
                      /\ now < p.expires.t
               /\ HasRelativeSchedule(p)
                   => /\ e.res = "IncorrectProposalState"
                      /\ e.P = proposals
                      /\ e.issue = <<>>
                      /\ e.susp = {}
               /\ q.activates # p.activates \/ q.expires # p.expires
                   => p.state.tag = "Open" /\ q.state.tag \notin { "Open" } \cup ForceTags
               /\ q.state.tag \in ForceTags => ~HasRelativeSchedule(q)]_vars

\* C21, reached: an Open proposal with relative schedules on which
\* force_execute returns IncorrectProposalState
C21_Witness ==
    \E id \in Ids :
        LET p == Get(proposals, id)
        IN  /\ p.state.tag = "Open"
            /\ p.activates.kind = "In"
            /\ p.expires.kind = "In"
            /\ force_execute(id).res = "IncorrectProposalState"


\* ------------------------------------------------------- serialization
\* the dispatches of proposal id suspended on a remote call
InFlight(id) == { c \in calls : c.id = id }

\* the positions of the log of issued calls of proposal id that hold the
\* main call of message i
MainCalls(id, i) ==
    { k \in 1 .. Len(sent[id]) : sent[id][k].step = i /\ sent[id][k].kind = "main" }

\* C22: while a dispatch of a proposal is suspended on a remote call, execute
\* and force_execute on that proposal return IncorrectProposalState, store
\* nothing and issue no call; at most one dispatch per proposal is in flight,
\* and the main call of each message is issued at most once.
C22_DispatchSerializedPerProposal ==
    \A id \in Ids :
        /\ Cardinality(InFlight(id)) <= 1
        /\ InFlight(id) # {}
               => /\ execute(id)
                      = [P |-> proposals, susp |-> {}, issue |-> <<>>,
                         res |-> "IncorrectProposalState"]
                  /\ force_execute(id)
                      = [P |-> proposals, susp |-> {}, issue |-> <<>>,
                         res |-> "IncorrectProposalState"]
        /\ \A k \in 1 .. Len(sent[id]) :
               sent[id][k].kind = "main"
                   => Cardinality(MainCalls(id, sent[id][k].step)) = 1

\* C22, reached: a dispatch suspended on the main call of a message while
\* execute and force_execute on the same proposal are turned down
C22_Witness ==
    \E c \in calls :
        /\ c.pc = "main"
        /\ Cardinality(MainCalls(c.id, c.i)) = 1
        /\ execute(c.id).res = "IncorrectProposalState"
        /\ force_execute(c.id).res = "IncorrectProposalState"


\* ------------------------------------------------------ persisted steps
\* the sub-state the store is to show while the remote call `pc` is pending
\* ("StepExecuting" is ExecutionStepState::Executing)
PendingSubState(pc) ==
    IF pc = "pre" THEN "PreValidating"
    ELSE IF pc = "main" THEN "StepExecuting"
    ELSE "PostValidating"

\* C23: while the pre-validate, main or post-validate call of message i is in
\* flight, the stored state of the proposal is Executing / ForceExecuting
\* with step index i and sub-state PreValidating, Executing or PostValidating
\* respectively.
C23_StoreShowsPendingCall ==
    \A c \in calls :
        LET p == Get(proposals, c.id)
        IN  /\ p.state.tag = (IF c.force THEN "ForceExecuting" ELSE "Executing")
            /\ p.state.step.step = c.i
            /\ p.state.step.state = PendingSubState(c.pc)


\* ----------------------------------------------------- execution results
\* proposal id has been dispatched and no call of it is pending
DispatchedAndAtRest(id) ==
    /\ Get(proposals, id).state.tag
           \in { "Executing", "Failed", "Succeeded", "ForceExecuting",
                 "ForceExecutionFailed", "ForceExecutionSucceeded" }
    /\ \A c \in calls : c.id # id

\* the highest step index attempted by the dispatch of proposal id
HighestStepAttempted(id) ==
    LET p == Get(proposals, id)
    IN  IF p.state.tag \in { "Succeeded", "ForceExecutionSucceeded" }
        THEN Len(get_proposal_payload_by_id(p.payload_id).messages) - 1
        ELSE p.state.step.step

\* C24: for every proposal that has been dispatched and is not suspended on a
\* remote call, the length of its execution-result list equals the highest
\* step index attempted + 1.
C24_OneResultPerStepAttempted ==
    \A id \in Ids :
        DispatchedAndAtRest(id) => Len(execs[id]) = HighestStepAttempted(id) + 1


\* -------------------------------------------------- submit specification
\* submit arguments (metadata, payload, activates, expires) of the submit
\* specification: metadata with and without a name and a description;
\* payloads without dependency, with dependencies on proposals 0, 1 and 2,
\* with a message whose method name is empty, without message; an absolute
\* and a relative expires
SubmitInputs ==
    { Metadata("name", "description"), Metadata("", "description"), Metadata("name", "") }
    \X { Payload(<<>>, << Msg(FALSE, FALSE) >>),
         Payload(<< 0 >>, << Msg(FALSE, FALSE) >>),
         Payload(<< 1 >>, << Msg(FALSE, FALSE) >>),
         Payload(<< 0, 2 >>, << Msg(FALSE, FALSE) >>),
         Payload(<<>>, << Msg(FALSE, FALSE), NamelessMsg >>),
         Payload(<<>>, <<>>) }
    \X { << At(0), At(2) >>, << In(0), In(0) >> }

\* submit with every argument, as the clock advances
SubmitNext ==
    \/ \E a \in SubmitInputs : SubmitProposal(a[1], a[2], a[3][1], a[3][2])
    \/ Tick

SubmitSpec == Init /\ [][SubmitNext]_vars

\* -------------------------------------------------------------- submit
\* the arguments submit is to turn down: metadata without name or
\* description, a message without method name, a dependency that is not below
\* the next id, an expires that is not in the future
NotSubmittable(metadata, payload, expires) ==
    \/ metadata.name = ""
    \/ metadata.description = ""
    \/ \E k \in 1 .. Len(payload.messages) : payload.messages[k].method = ""
    \/ \E k \in 1 .. Len(payload.depends_on) : payload.depends_on[k] >= Len(proposals)
    \/ expires.kind = "At" /\ expires.t <= now

\* C25: the payload of every stored proposal names only dependencies below
\* the proposal's own id; a submit with a dependency that is not below the
\* next id, with invalid metadata, with an empty method name or with an
\* expires that is not in the future aborts and leaves the proposals and the
\* payloads as they were, and every other submit appends one of each.
C25_DependenciesBelowOwnId ==
    /\ \A id \in Ids :
           \A k \in 1 .. Len(payloads[Get(proposals, id).payload_id + 1].depends_on) :
               payloads[Get(proposals, id).payload_id + 1].depends_on[k] < id
    /\ \A a \in SubmitInputs :
           LET o == submit(a[1], a[2], a[3][1], a[3][2])
           IN  IF NotSubmittable(a[1], a[2], a[3][2])
               THEN o.res = "Trap" /\ o.proposals = proposals /\ o.payloads = payloads
               ELSE /\ o.res = "Ok"
                    /\ Len(o.proposals) = Len(proposals) + 1
                    /\ o.payloads = Append(payloads, a[2])

\* C25, reached: proposal 1 stored with a dependency on proposal 0, and a
\* submit naming a dependency on the next id that aborts
C25_Witness ==
    /\ Len(proposals) = 2
    /\ payloads[Get(proposals, 1).payload_id + 1].depends_on = << 0 >>
    /\ submit(Metadata("name", "description"),
              Payload(<< 0, 2 >>, << Msg(FALSE, FALSE) >>), In(0), In(0)).res = "Trap"


\* ------------------------------------------------------------------ ids
\* a proposal as submit is to store it: Submitted, zero tallies, no
\* validator-set field
Fresh(p) ==
    /\ p.state = [tag |-> "Submitted", step |-> NoStep]
    /\ p.votes_yes = 0
    /\ p.votes_no = 0
    /\ p.votes_abstain = 0
    /\ p.total_voting_power = 0
    /\ p.validated = "None"
    /\ p.voting_end_time = None
    /\ ~p.passing_threshold.some

\* C26: a successful submit on a store of n proposals returns n and adds
\* exactly one proposal, Submitted with zero tallies and no validator-set
\* field; no step removes or moves a proposal, every step that adds one
\* appends a fresh one, and get_next_proposal_id is the number of stored
\* proposals (get_proposal_states(0, 1) is [Submitted] after the first
\* submit).
C26_IdsDenseAndAppendOnly ==
    [][/\ get_next_proposal_id = Len(proposals)
       /\ \A a \in SubmitChoices :
              LET o == submit(Metadata("name", "description"), a[1], a[2], a[3])
              IN  o.res = "Ok"
                      => /\ o.id = Len(proposals)
                         /\ Len(o.proposals) = Len(proposals) + 1
                         /\ SubSeq(o.proposals, 1, Len(proposals)) = proposals
                         /\ Fresh(o.proposals[o.id + 1])
       /\ Len(proposals') \in { Len(proposals), Len(proposals) + 1 }
       /\ \A id \in Ids :
              /\ proposals'[id + 1].payload_id = proposals[id + 1].payload_id
              /\ proposals'[id + 1].created_at = proposals[id + 1].created_at
       /\ Len(proposals') = Len(proposals) + 1
              => /\ Fresh(proposals'[Len(proposals) + 1])
                 /\ Len(proposals) = 0
                        => /\ get_next_proposal_id' = 1
                           /\ get_proposal_states(0, 1)'
                                  = << [tag |-> "Submitted", step |-> NoStep] >>]_vars

\* C26, reached: two stored proposals, the second still as submitted, with
\* get_next_proposal_id = 2
C26_Witness ==
    /\ Len(proposals) = 2
    /\ get_next_proposal_id = 2
    /\ Fresh(Get(proposals, 1))
    /\ get_proposal_states(0, 2)[2] = [tag |-> "Submitted", step |-> NoStep]


\* ------------------------------------------------------- frozen schedules
\* Accepted and the states reached from it
AcceptedPath == { "Accepted", "Executing", "Succeeded", "Failed", "Expired" }

\* schedule s as it is frozen at the present clock
Frozen(s) == IF s.kind = "In" THEN [kind |-> "At", t |-> now + s.t] ELSE s

\* C27: a proposal that is Accepted, Executing, Succeeded, Failed or Expired
\* has both schedules absolute; the step that first takes a proposal to one
\* of these states freezes a relative schedule to At(now + delta); an
\* absolute schedule never changes.
C27_SchedulesAbsoluteOnceAccepted ==
    [][\A id \in Ids :
           LET p == proposals[id + 1]
               q == proposals'[id + 1]
           IN  /\ q.state.tag \in AcceptedPath
                   => q.activates.kind = "At" /\ q.expires.kind = "At"
               /\ p.state.tag \notin AcceptedPath /\ q.state.tag \in AcceptedPath
                   => /\ q.activates = Frozen(p.activates)
                      /\ q.expires = Frozen(p.expires)
               /\ p.activates.kind = "At" => q.activates = p.activates
               /\ p.expires.kind = "At" => q.expires = p.expires]_vars

\* C27, reached: an Accepted proposal whose schedules In(1) and In(2) were
\* frozen at clock 0
C27_Witness ==
    \E id \in Ids :
        LET p == Get(proposals, id)
        IN  /\ p.state.tag = "Accepted"
            /\ p.activates = [kind |-> "At", t |-> 1]
            /\ p.expires = [kind |-> "At", t |-> 2]


\* -------------------------------------------------------- terminal states
\* the states from which the transition table permits nothing
TerminalTags ==
    { "ValidationFailed", "Rejected", "Revoked", "QuorumNotMet", "Succeeded",
      "Failed", "Expired", "ForceExecutionSucceeded", "ForceExecutionFailed" }

\* sequence s is a prefix of sequence t
IsPrefix(s, t) == Len(s) <= Len(t) /\ SubSeq(t, 1, Len(s)) = s

\* C28: once a proposal's state is terminal, no later operation changes any
\* field of its proposal record; only the append-only execution-result and
\* revoke collaterals may grow.
C28_TerminalRecordFrozen ==
    [][\A id \in Ids :
           /\ Get(proposals, id).state.tag \in TerminalTags
                  => Get(proposals', id) = Get(proposals, id)
           /\ IsPrefix(execs[id], execs'[id])
           /\ IsPrefix(revokes, revokes')]_vars

\* C28, reached: a Revoked proposal whose voting period still runs while
\* early finalization is switched off, on which a vote update, a
\* finalization and a revocation leave the record as it is, next to a Failed
\* proposal with its execution result
C28_Witness ==
    \E id \in Ids, other \in Ids :
        LET p == Get(proposals, id)
        IN  /\ p.state.tag = "Revoked"
            /\ p.voting_end_time = 2 /\ now < 2
            /\ ~config.voting_may_end_early
            /\ update_total_voting_power(p, 0).p = p
            /\ finalize_vote_result(p).p = p
            /\ revoke(p).p = p
            /\ Get(proposals, other).state.tag = "Failed"
            /\ Len(execs[other]) = 1


\* -------------------------------------------------- access specification
\* the principal whose roles the admin changes in the access specification
RoleSubjects == { "operator" }

\* one proposal with one message, every lifecycle operation called by every
\* principal, and the role vectors changed by add_role, remove_role and
\* clear_users_of_role
AccessNext ==
    \/ \E caller \in Principals :
           /\ proposals = <<>>
           /\ SubmitAs(caller, Payload(<<>>, << Msg(FALSE, FALSE) >>), At(0), At(MaxTime + 1))
    \/ \E caller \in Principals, id \in Ids :
           ValidateAs(caller, id, 2, SomeThreshold(from_percent(20), from_percent(20)), TRUE)
    \/ \E caller \in Principals, id \in Ids :
           /\ WithinCap(update_vote_result_as(caller, id, 0, 1, 0), MaxPower)
           /\ UpdateVoteResultAs(caller, id, 0, 1, 0)
    \/ \E caller \in Principals, id \in Ids : UpdateTotalVotingPowerAs(caller, id, 1)
    \/ \E caller \in Principals, id \in Ids :
           /\ WithinCap(update_vote_result_and_total_voting_power_as(
                            caller, id, 1, 0, 0, 1), MaxPower)
           /\ UpdateVoteResultAndTotalAs(caller, id, 1, 0, 0, 1)
    \/ \E caller \in Principals, id \in Ids : FinalizeVoteResultAs(caller, id)
    \/ \E caller \in Principals, id \in Ids : RevokeAs(caller, id)
    \/ \E caller \in Principals, id \in Ids : ExecuteAs(caller, id)
    \/ \E caller \in Principals, id \in Ids : ForceExecuteAs(caller, id)
    \/ \E c \in calls, o \in { "true", "reject" } : MessageReply(c, o)
    \/ \E caller \in Principals, early \in BOOLEAN : UpdateConfigAs(caller, early)
    \/ \E caller \in Principals, role \in UserRole, principal \in RoleSubjects :
           AddRole(caller, role, principal)
    \/ \E caller \in Principals, role \in UserRole, principal \in RoleSubjects :
           RemoveRole(caller, role, principal)
    \/ \E caller \in Principals, role \in UserRole : ClearUsersOfRole(caller, role)

AccessSpec == Init /\ [][AccessNext]_vars

\* principal `caller` is not in the vector of `role`
Lacks(role, caller) == \A i \in 1 .. Len(roles[role]) : roles[role][i] # caller

\* the answer of a trapped call on a proposal: nothing stored
TrappedOn(id) == [res |-> "Trap", p |-> Get(proposals, id)]

\* the answer of a trapped execution: nothing stored, no call suspended or
\* issued
TrappedDispatch == [P |-> proposals, susp |-> {}, issue |-> <<>>, res |-> "Trap"]

\* C29: every lifecycle operation checks the caller's role before anything
\* else (submit: Proposer; validate: Validator; the vote updates and
\* finalize_vote_result: VoteManager; revoke: Revoker; execute: Executor;
\* force_execute: ForceExecutor; update_config and the role changes: Admin):
\* a call by a principal lacking the role traps, changes no stored state and
\* issues no remote call, whatever its arguments.
C29_RoleCheckedFirst ==
    \A caller \in Principals :
        /\ Lacks("Proposer", caller)
               => \A a \in SubmitInputs :
                      submit_as(caller, a[1], a[2], a[3][1], a[3][2])
                          = [res |-> "Trap", id |-> None, metadatas |-> metadatas,
                             payloads |-> payloads, proposals |-> proposals]
        /\ Lacks("Validator", caller)
               => \A id \in Ids, a \in ValidateChoices :
                      validate_as(caller, id, a[1], a[2], a[3]) = TrappedOn(id)
        /\ Lacks("VoteManager", caller)
               => \A id \in Ids, d \in LifecycleDeltas, total \in -1 .. MaxPower :
                      /\ update_vote_result_as(caller, id, d[1], d[2], d[3]) = TrappedOn(id)
                      /\ update_total_voting_power_as(caller, id, total) = TrappedOn(id)
                      /\ update_vote_result_and_total_voting_power_as(
                             caller, id, d[1], d[2], d[3], total) = TrappedOn(id)
                      /\ finalize_vote_result_as(caller, id) = TrappedOn(id)
        /\ Lacks("Revoker", caller)
               => \A id \in Ids : revoke_as(caller, id) = TrappedOn(id)
        /\ Lacks("Executor", caller)
               => \A id \in Ids : execute_as(caller, id) = TrappedDispatch
        /\ Lacks("ForceExecutor", caller)
               => \A id \in Ids : force_execute_as(caller, id) = TrappedDispatch
        /\ Lacks("Admin", caller)
               => /\ \A early \in BOOLEAN :
                         update_config_as(caller, early) = [res |-> "Trap", config |-> config]
                  /\ \A role \in UserRole, principal \in Principals :
                         /\ add_role_as(caller, role, principal)
                                = [res |-> "Trap", roles |-> roles]
                         /\ remove_role_as(caller, role, principal)
                                = [res |-> "Trap", roles |-> roles]
                         /\ clear_users_of_role_as(caller, role)
                                = [res |-> "Trap", roles |-> roles]

\* C29, reached: an Open proposal that a Revoker could revoke and a ForceExecutor
\* could bring to its dispatch, after the operator has lost both roles and
\* gained Admin: the operator's revoke and execute trap, its add_role does not
C29_Witness ==
    \E id \in Ids :
        /\ Get(proposals, id).state.tag = "Open"
        /\ revoke(Get(proposals, id)).res = "Ok"
        /\ force_execute(id).issue # <<>>
        /\ roles["Revoker"] = <<>>
        /\ roles["ForceExecutor"] = <<>>
        /\ roles["Admin"] = << "canister", "operator" >>
        /\ revoke_as("operator", id).res = "Trap"
        /\ force_execute_as("operator", id) = TrappedDispatch
        /\ add_role_as("operator", "Revoker", "operator").res = "Ok"


\* --------------------------------------------------------- dispatch order
\* the dispatch of a proposal has aborted
Aborted(p) == p.state.tag \in { "Failed", "ForceExecutionFailed" }

\* C30: the messages of a proposal are dispatched strictly in order: the
\* first remote call is for message 0, every remote call is issued with the
\* stored state at Executing(i) / ForceExecuting(i) of its message i, a remote
\* call for message i+1 follows the calls of message i and is issued only
\* after message i's call succeeded and the state advanced to step i+1 with
\* sub-state NotStarted; once a step has aborted, no further remote call is
\* ever issued for that proposal.
C30_MessagesDispatchedInOrder ==
    [][\A id \in Ids :
           LET s == sent[id]
               t == sent'[id]
               p == Get(proposals, id)
               q == Get(proposals', id)
           IN  /\ IsPrefix(s, t)
               /\ \A k \in (Len(s) + 1) .. Len(t) :
                      /\ q.state.tag \in { "Executing", "ForceExecuting" }
                      /\ q.state.step.step = t[k].step
                      /\ k = 1 => t[k].step = 0
                      /\ k > 1 => t[k].step \in { t[k - 1].step, t[k - 1].step + 1 }
                      /\ k > 1 /\ t[k].step = t[k - 1].step + 1
                             => /\ Len(execs'[id]) = t[k].step
                                /\ execs'[id][t[k].step] = "Ok"
                                /\ q.state.step.state = "NotStarted"
               /\ Aborted(p) => t = s /\ q = p]_vars

\* C30, reached: a proposal of two messages whose first message aborted at
\* its pre-validate call: Failed at step 0, one call issued, none suspended
C30_Witness ==
    \E id \in Ids :
        /\ Get(proposals, id).state = [tag |-> "Failed",
                                       step |-> [step |-> 0, state |-> "NotStarted"]]
        /\ Len(get_proposal_payload_by_id(Get(proposals, id).payload_id).messages) = 2
        /\ sent[id] = << [step |-> 0, kind |-> "pre"] >>
        /\ \A c \in calls : c.id # id


\* ------------------------------------------------- StateTransitionError
\* C31: no public operation (validate, the vote updates, finalize_vote_result,
\* revoke, execute, force_execute), called on a reachable state with any
\* arguments, returns StateTransitionError.
C31_NoStateTransitionErrorSurfaces ==
    \A id \in Ids :
        LET p == Get(proposals, id)
        IN  /\ \A a \in ValidateChoices :
                   validate(p, a[1], a[2], a[3]).res # "StateTransitionError"
            /\ \A d \in LifecycleDeltas, total \in -1 .. MaxPower :
                   /\ update_vote_result(p, d[1], d[2], d[3]).res # "StateTransitionError"
                   /\ update_total_voting_power(p, total).res # "StateTransitionError"
                   /\ update_vote_result_and_total_voting_power(p, d[1], d[2], d[3], total).res
                          # "StateTransitionError"
            /\ finalize_vote_result(p).res # "StateTransitionError"
            /\ revoke(p).res # "StateTransitionError"
            /\ execute(id).res # "StateTransitionError"
            /\ force_execute(id).res # "StateTransitionError"


\* ------------------------------------------------ execute outside window
\* C32: execute on an Accepted proposal whose expires time has elapsed
\* (now >= expires), or whose activates time has not yet been reached, returns
\* IncorrectProposalState, issues no remote call and leaves the proposal
\* record unchanged.
C32_ExecuteOutsideWindowRefused ==
    \A id \in Ids :
        LET p == Get(proposals, id)
        IN  /\ p.state.tag = "Accepted"
            /\ \/ p.expires.kind = "At" /\ now >= p.expires.t
               \/ p.activates.kind = "At" /\ now < p.activates.t
            => execute(id) = [P |-> proposals, susp |-> {}, issue |-> <<>>,
                              res |-> "IncorrectProposalState"]

\* C32, reached: an Accepted proposal at the instant its window closes
\* (now = expires), with its activates time reached, on which execute returns
\* IncorrectProposalState
C32_Witness ==
    \E id \in Ids :
        LET p == Get(proposals, id)
        IN  /\ p.state.tag = "Accepted"
            /\ p.activates = [kind |-> "At", t |-> 2]
            /\ p.expires = [kind |-> "At", t |-> 3]
            /\ now = 3
            /\ execute(id).res = "IncorrectProposalState"


\* ---------------------------------------------- initialize specification
\* the state after init, before any initialize
FreshInit ==
    /\ now = 0
    /\ config = DefaultConfig
    /\ proposals = <<>>
    /\ payloads = <<>>
    /\ execs = [id \in AllIds |-> <<>>]
    /\ revokes = <<>>
    /\ calls = {}
    /\ sent = [id \in AllIds |-> <<>>]
    /\ roles = FreshRoles
    /\ inits = <<>>
    /\ metadatas = <<>>
    /\ multisig = MultisigInit

\* the principals initialize is given in the initialize specification
InitPrincipals == { "operator", "anonymous" }

\* initialize by every principal with every choice of the three principals,
\* the answers of the validator, update_config with either value of
\* initialized, remove_role by every principal
InitNext ==
    \/ \E caller \in Principals, v \in InitPrincipals, m \in InitPrincipals,
          e \in InitPrincipals : Initialize(caller, v, m, e)
    \/ \E k \in 1 .. Len(inits) : InitializeReply(k)
    \/ \E caller \in Principals, flag \in BOOLEAN :
           UpdateConfigTo(caller, [config EXCEPT !.initialized = flag])
    \/ \E caller \in Principals, role \in { "Validator", "VoteManager", "Executor" },
          principal \in InitPrincipals : RemoveRole(caller, role, principal)

InitSpec == FreshInit /\ [][InitNext]_vars

\* C33: the controller's initialize takes effect exactly once: after one
\* initialize has started, no other initialize call (one that arrives while
\* the first is suspended on its remote call to the validator, or one made
\* after update_config) passes its assertions and grants Validator,
\* VoteManager or Executor again.
C33_InitializeTakesEffectOnce == Len(inits) <= 1


\* ---------------------------------------------------- get_proposal_revoke
\* C34: get_proposal_revoke(id) returns the revoke record of proposal id: for
\* every Revoked proposal the record whose proposal_id is that proposal, and
\* nothing for a proposal that was never revoked, whatever the order in which
\* proposals were revoked.
C34_RevokeRecordByProposalId ==
    \A id \in Ids :
        IF Get(proposals, id).state.tag = "Revoked"
        THEN /\ get_proposal_revoke(id).some
             /\ get_proposal_revoke(id).record.proposal_id = id
        ELSE ~get_proposal_revoke(id).some


\* ---------------------------------------------------- role specification
\* the roles changed in the role specification
RoleSpecRoles == { "Admin", "Validator", "Revoker" }

\* add_role, remove_role and clear_users_of_role by every principal, for every
\* principal, on three of the roles
RoleNext ==
    \/ \E caller \in Principals, role \in RoleSpecRoles, principal \in Principals :
           AddRole(caller, role, principal)
    \/ \E caller \in Principals, role \in RoleSpecRoles, principal \in Principals :
           RemoveRole(caller, role, principal)
    \/ \E caller \in Principals, role \in RoleSpecRoles : ClearUsersOfRole(caller, role)

RoleSpec == Init /\ [][RoleNext]_vars

\* the principals in the vector r
Members(r) == { r[i] : i \in 1 .. Len(r) }

\* the role vectors R hold, apart from `role`, what the stored ones hold
OtherRolesKept(R, role) == \A other \in UserRole \ { role } : R[other] = roles[other]

\* C35: role membership behaves as a set under add_role, remove_role and
\* clear_users_of_role: a principal appears at most once in a role's list;
\* adding a member returns AlreadyExists and changes nothing; has_role is true
\* after add and false after remove; removing a member leaves every other
\* member of that role and all other roles unchanged; removing a non-member
\* is a no-op; clear leaves the role empty.
C35_RoleMembershipIsASet ==
    \A role \in UserRole :
        /\ Cardinality(Members(roles[role])) = Len(roles[role])
        /\ \A caller \in Members(roles["Admin"]), principal \in Principals :
               LET a == add_role_as(caller, role, principal)
                   r == remove_role_as(caller, role, principal)
                   c == clear_users_of_role_as(caller, role)
               IN  /\ IF principal \in Members(roles[role])
                      THEN a = [res |-> "AlreadyExists", roles |-> roles]
                      ELSE /\ a.res = "Ok"
                           /\ Members(a.roles[role])
                                  = Members(roles[role]) \cup { principal }
                           /\ Len(a.roles[role]) = Len(roles[role]) + 1
                   /\ OtherRolesKept(a.roles, role)
                   /\ Members(r.roles[role]) = Members(roles[role]) \ { principal }
                   /\ Len(r.roles[role]) = Cardinality(Members(r.roles[role]))
                   /\ OtherRolesKept(r.roles, role)
                   /\ principal \notin Members(roles[role]) => r.roles = roles
                   /\ c.roles[role] = <<>>
                   /\ OtherRolesKept(c.roles, role)

\* C35, reached: a role held by three principals whose first member is
\* removed: the last member takes its place and nobody else is lost
C35_Witness ==
    /\ roles["Validator"] = << "operator", "canister", "anonymous" >>
    /\ remove_role_as("canister", "Validator", "operator").roles["Validator"]
           = << "anonymous", "canister" >>
    /\ add_role_as("canister", "Validator", "canister").res = "AlreadyExists"


\* =================================================== multisig-voting canister
\* vote_buffer_time of CONFIG (900 s in the source), in clock units
VoteBufferTime == 1

\* the accepted votes and the forwarded results the model follows
MaxCast == 2
MaxForwards == 2

\* Vote
MsVote == { "Yes", "No", "Abstain" }

\* a fresh record: state Open, VoteRecord::default()
MsOpenState(expiration) == MsProposalState(expiration, "Open", <<>>, <<>>, <<>>)

\* Vec::contains
MsContains(s, principal) == \E i \in 1 .. Len(s) : s[i] = principal

\* the result of a multisig operation: its return value (or Trap), the
\* canister state it leaves, and whether it issues the call to the engine
MsEffect(res, M, forward) == [res |-> res, M |-> M, forward |-> forward]

\* notify_multisig: traps unless the caller is the governance canister;
\* inserts a fresh Open record under the key, replacing the one there
notify_multisig(caller, proposal, voting_end_time) ==
    IF caller # multisig.governance_canister
    THEN MsEffect("Trap", multisig, FALSE)
    ELSE MsEffect("Ok",
                  [multisig EXCEPT !.votes[proposal] = MsOpenState(voting_end_time)],
                  FALSE)

\* add_proposal_state that inserts whether or not the key is there
add_proposal_stateOverwrite(V, index, state) == [V EXCEPT ![index] = state]

\* add_proposal_state: inserts only when the key is absent
add_proposal_state(V, index, state) ==
    IF V[index] # NoProposalState THEN V ELSE [V EXCEPT ![index] = state]

\* the loop of sync_with_governance over the decoded list
RECURSIVE sync_loop(_, _)
sync_loop(V, list) ==
    IF list = <<>>
    THEN V
    ELSE sync_loop(add_proposal_state(V, Head(list)[1], MsOpenState(Head(list)[2])),
                   Tail(list))

\* sync_with_governance after its call returned: a reject gives
\* InterCanisterCallError, a reply is added record by record
sync_with_governance(reply) ==
    IF reply.reject
    THEN MsEffect("InterCanisterCallError", multisig, FALSE)
    ELSE MsEffect("Ok", [multisig EXCEPT !.votes = sync_loop(@, reply.list)], FALSE)

\* require_caller_is_signer
require_caller_is_signer(caller) == caller \in multisig.signers

\* whether the caller is in one of the three lists of the record
MsHasVoted(st, caller) ==
    \/ MsContains(st.yes_votes, caller)
    \/ MsContains(st.no_votes, caller)
    \/ MsContains(st.abstain_votes, caller)

\* the push of vote_proposal
MsPush(st, caller, vote) ==
    IF vote = "Yes" THEN [st EXCEPT !.yes_votes = Append(@, caller)]
    ELSE IF vote = "No" THEN [st EXCEPT !.no_votes = Append(@, caller)]
    ELSE [st EXCEPT !.abstain_votes = Append(@, caller)]

\* vote_proposal with the assertion on earlier votes left out
vote_proposalNoAssert(caller, proposal, vote) ==
    LET st == multisig.votes[proposal]
    IN  IF ~require_caller_is_signer(caller) \/ st = NoProposalState
        THEN MsEffect("Trap", multisig, FALSE)
        ELSE IF now > st.expiration - VoteBufferTime
        THEN MsEffect("Expired", multisig, FALSE)
        ELSE MsEffect("Ok",
                      [multisig EXCEPT !.votes[proposal] = MsPush(st, caller, vote)],
                      FALSE)

\* vote_proposal: traps for a non-signer, for an untracked proposal
\* (unwrap) and for a caller already in the record; Expired once the clock
\* is past expiration - vote_buffer_time; otherwise the vote is pushed.
\* Every expiration of the model is at least the buffer, so the u64
\* subtraction does not wrap.
vote_proposal(caller, proposal, vote) ==
    LET st == multisig.votes[proposal]
    IN  IF ~require_caller_is_signer(caller) \/ st = NoProposalState
        THEN MsEffect("Trap", multisig, FALSE)
        ELSE IF MsHasVoted(st, caller)
        THEN MsEffect("Trap", multisig, FALSE)
        ELSE IF now > st.expiration - VoteBufferTime
        THEN MsEffect("Expired", multisig, FALSE)
        ELSE MsEffect("Ok",
                      [multisig EXCEPT !.votes[proposal] = MsPush(st, caller, vote)],
                      FALSE)

\* submit_vote_result up to its call: a Passed record forwards again; an
\* expired one becomes Failed; otherwise the yes votes are compared with
\* votes_required, and the record becomes Passed and is forwarded when
\* they reach it
submit_vote_result(caller, proposal) ==
    LET st == multisig.votes[proposal]
        passed == Len(st.yes_votes) >= multisig.votes_required
    IN  IF ~require_caller_is_signer(caller) \/ st = NoProposalState
        THEN MsEffect("Trap", multisig, FALSE)
        ELSE IF st.state = "Passed"
        THEN MsEffect("Pending", multisig, TRUE)
        ELSE IF now > st.expiration
        THEN MsEffect("Expired", [multisig EXCEPT !.votes[proposal].state = "Failed"],
                      FALSE)
        ELSE IF passed
        THEN MsEffect("Pending", [multisig EXCEPT !.votes[proposal].state = "Passed"],
                      TRUE)
        ELSE MsEffect("GenericError", multisig, FALSE)

\* the principals of a Vec
MsRange(s) == { s[i] : i \in 1 .. Len(s) }

\* update_m_of_n: the admin replaces the threshold and the signers; the
\* records of PROPOSAL_VOTES are not touched; traps when the caller is
\* not an admin, votes_required > total_votes, total_votes is not the
\* length of signers, or signers holds a principal twice
update_m_of_n(caller, votes_required, total_votes, signers) ==
    IF \/ caller \notin multisig.admins
       \/ votes_required > total_votes
       \/ total_votes # Len(signers)
       \/ Cardinality(MsRange(signers)) # total_votes
    THEN MsEffect("Trap", multisig, FALSE)
    ELSE MsEffect("Ok",
                  [multisig EXCEPT !.votes_required = votes_required,
                                   !.total_votes = total_votes,
                                   !.signers = MsRange(signers)],
                  FALSE)

\* ------------------------------------------------- multisig-voting actions
MsFrame ==
    UNCHANGED <<now, config, proposals, payloads, execs, revokes, calls, sent, roles,
                inits, metadatas>>

NotifyMultisig(caller, proposal, voting_end_time) ==
    /\ multisig' = notify_multisig(caller, proposal, voting_end_time).M
    /\ MsFrame

\* sync_with_governance issues its call; the engine answers the query with
\* the list of open proposals, or traps in it, which rejects the call; the
\* model follows one sync at a time
SyncCall ==
    LET q == get_all_open_proposal_ids_with_expiration
        reply == [reject |-> q.trap, list |-> IF q.trap THEN <<>> ELSE q.list]
    IN  /\ multisig.syncs = {}
        /\ multisig' = [multisig EXCEPT !.syncs = @ \cup { reply }]
        /\ MsFrame

\* sync_with_governance resumes with a reply
SyncReply(reply) ==
    /\ reply \in multisig.syncs
    /\ multisig' = [sync_with_governance(reply).M EXCEPT !.syncs = @ \ { reply }]
    /\ MsFrame

VoteProposal(caller, proposal, vote) ==
    LET o == vote_proposal(caller, proposal, vote)
    IN  /\ Len(multisig.cast) < MaxCast
        /\ multisig' =
               IF o.res = "Ok"
               THEN [o.M EXCEPT !.cast =
                        Append(@, [proposal |-> proposal, signer |-> caller,
                                   vote |-> vote])]
               ELSE o.M
        /\ MsFrame

SubmitVoteResult(caller, proposal) ==
    LET o == submit_vote_result(caller, proposal)
    IN  /\ Len(multisig.forwards) < MaxForwards
        /\ multisig' =
               IF o.forward
               THEN [o.M EXCEPT !.forwards = Append(@, proposal)]
               ELSE o.M
        /\ MsFrame

\* the engine serves the next forwarded call:
\* update_vote_result_and_total_voting_power(id, 1, 0, 0, 1)
ForwardDelivered ==
    LET id == multisig.forwards[multisig.delivered + 1]
    IN  /\ multisig.delivered < Len(multisig.forwards)
        /\ multisig' = [multisig EXCEPT !.delivered = @ + 1]
        /\ proposals' =
               IF id \in Ids
               THEN Put(proposals, id,
                        update_vote_result_and_total_voting_power(
                            Get(proposals, id), 1, 0, 0, 1).p)
               ELSE proposals
        /\ UNCHANGED <<now, config, payloads, execs, revokes, calls, sent, roles,
                       inits, metadatas>>

UpdateMOfN(caller, votes_required, total_votes, signers) ==
    /\ multisig' = update_m_of_n(caller, votes_required, total_votes, signers).M
    /\ MsFrame

\* the reconfigurations of the multisig specification
MOfNChoices ==
    { << 1, 2, << "operator", "anonymous" >> >>,
      << 2, 2, << "operator", "anonymous" >> >>,
      << 1, 1, << "operator" >> >> }

\* who calls the multisig canister
MsCallers == { "canister", "operator", "anonymous" }

\* one proposal in the engine, opened with voting end 2; the multisig
\* canister is notified of, or syncs, the open proposals; the signers
\* vote, submit the result, and the admin reconfigures
MultisigNext ==
    \/ \E a \in VoteSubmitChoices : proposals = <<>> /\ Submit(a[1], a[2], a[3])
    \/ \E id \in Ids :
           Validate(id, 2, SomeThreshold(from_percent(50), from_percent(50)), TRUE)
    \/ \E caller \in { "canister" }, id \in { 0 }, vet \in { 3 } :
           NotifyMultisig(caller, id, vet)
    \/ SyncCall
    \/ \E reply \in multisig.syncs : SyncReply(reply)
    \/ \E caller \in { "operator", "anonymous" }, vote \in { "Yes", "No" } :
           VoteProposal(caller, 0, vote)
    \/ \E caller \in { "operator", "anonymous" } : SubmitVoteResult(caller, 0)
    \/ ForwardDelivered
    \/ \E a \in MOfNChoices : UpdateMOfN("canister", a[1], a[2], a[3])
    \/ Tick

MultisigSpec == Init /\ [][MultisigNext]_vars


\* ------------------------------------------------------------------ C36
\* the step issues a forward to the engine, for proposal id
MsForwards(id) ==
    /\ Len(multisig'.forwards) = Len(multisig.forwards) + 1
    /\ multisig'.forwards[Len(multisig'.forwards)] = id

\* the step is the processing of a reply by sync_with_governance
MsSyncs == multisig'.syncs # multisig.syncs /\ multisig'.syncs \subseteq multisig.syncs

\* a signer that has not voted on a tracked proposal gets Expired once the
\* clock is past expiration - vote_buffer_time
MsLateVoteExpired ==
    \A id \in AllIds, s \in multisig.signers, v \in { "Yes", "No", "Abstain" } :
        LET st == multisig.votes[id]
        IN  (/\ st.state # "Absent"
             /\ \A i \in 1 .. Len(st.yes_votes) : st.yes_votes[i] # s
             /\ \A i \in 1 .. Len(st.no_votes) : st.no_votes[i] # s
             /\ \A i \in 1 .. Len(st.abstain_votes) : st.abstain_votes[i] # s
             /\ now > st.expiration - 1)
            => /\ vote_proposal(s, id, v).res = "Expired"
               /\ vote_proposal(s, id, v).M = multisig

\* a sync leaves every record it finds as it is
MsSyncKeeps ==
    MsSyncs => \A id \in AllIds :
                   multisig.votes[id].state # "Absent"
                       => multisig'.votes[id] = multisig.votes[id]

\* C36: a result is forwarded for a proposal only when at least
\* votes_required distinct signers have voted Yes on it; no signer has two
\* accepted votes on one proposal; a late vote is refused with Expired;
\* sync_with_governance never resets the votes of a tracked proposal.
C36_ForwardOnlyWithRequiredYesVotes ==
    [][ /\ \A id \in AllIds :
               MsForwards(id)
                   => Cardinality({ multisig.votes[id].yes_votes[i] :
                                       i \in 1 .. Len(multisig.votes[id].yes_votes) })
                          >= multisig.votes_required
        /\ \A i, j \in 1 .. Len(multisig.cast) :
               (/\ multisig.cast[i].proposal = multisig.cast[j].proposal
                /\ multisig.cast[i].signer = multisig.cast[j].signer) => i = j
        /\ MsLateVoteExpired
        /\ MsSyncKeeps ]_vars

\* what the tally keeps under reconfiguration and renotification: a result
\* is forwarded for a proposal only when its record is Passed; a record becomes Passed only in a step taken no later than its
\* expiration in which its yes votes, all of distinct principals, number at
\* least the votes_required then configured; every record holds each
\* principal at most once over its three lists; a late vote of a signer who
\* has not voted is refused with Expired; sync_with_governance never resets
\* the votes of a tracked proposal.
MsForwardOnlyWhenPassed ==
    [][ /\ \A id \in AllIds :
               LET st == multisig.votes[id]
                   yes == { st.yes_votes[i] : i \in 1 .. Len(st.yes_votes) }
               IN  /\ MsForwards(id) => multisig'.votes[id].state = "Passed"
                   /\ (st.state # "Passed" /\ multisig'.votes[id].state = "Passed")
                          => /\ now <= st.expiration
                             /\ Cardinality(yes) = Len(st.yes_votes)
                             /\ Cardinality(yes) >= multisig.votes_required
                             /\ multisig'.votes_required = multisig.votes_required
                             /\ multisig'.votes[id] = [st EXCEPT !.state = "Passed"]
                   /\ Cardinality(yes
                                  \cup { st.no_votes[i] : i \in 1 .. Len(st.no_votes) }
                                  \cup { st.abstain_votes[i] :
                                            i \in 1 .. Len(st.abstain_votes) })
                          = Len(st.yes_votes) + Len(st.no_votes) + Len(st.abstain_votes)
        /\ MsLateVoteExpired
        /\ MsSyncKeeps ]_vars

\* a record passed 1-of-2 on the yes vote of one signer, after the other
\* voted No; its result was forwarded, the threshold was raised to 2, and
\* the result was forwarded again
MsPassedThenRaised ==
    /\ multisig.votes[0].state = "Passed"
    /\ multisig.votes[0].yes_votes = << "operator" >>
    /\ multisig.votes[0].no_votes = << "anonymous" >>
    /\ multisig.votes_required = 2
    /\ multisig.forwards = << 0, 0 >>
    /\ multisig.delivered = 1


\* ------------------------------------------------------------------ C37
\* the sub-state stored for the proposal of a suspended dispatch
StoredSubState(c) == Get(proposals, c.id).state.step.state

\* the terminal sub-states: the five error leaves and Succeeded
StepLeaves ==
    { "PreValidateCallError", "PreValidateFailed", "ExecutionCallError",
      "PostValidateCallError", "PostValidateFailed", "StepSucceeded" }

\* C37: the per-message sub-state follows the step machine: while the
\* pre-validate call of a message is awaited the stored sub-state is
\* PreValidating, while its main call is awaited it is Executing (entered
\* from PreValidating, or from NotStarted when there is no pre-validate
\* target), while its post-validate call is awaited it is PostValidating;
\* and a step at one of the five error leaves or at Succeeded never changes
\* its sub-state.
C37_SubStateFollowsStepMachine ==
    [][ /\ \A c \in calls :
               /\ c.pc = "pre" => StoredSubState(c) = "PreValidating"
               /\ c.pc = "main" => StoredSubState(c) = "StepExecuting"
               /\ c.pc = "post" => StoredSubState(c) = "PostValidating"
        /\ \A id \in Ids :
               LET p == Get(proposals, id)
                   q == Get(proposals', id)
               IN  (/\ p.state.tag \in { "Executing", "ForceExecuting" }
                    /\ p.state.step.state \in StepLeaves
                    /\ q.state.tag = p.state.tag
                    /\ q.state.step.step = p.state.step.step)
                       => q.state.step.state = p.state.step.state ]_vars


\* ------------------------------------------------------------------ C38
\* while a dispatch is suspended the stored record of its proposal equals
\* the copies execute / force_execute and execute_message hold, and no two
\* dispatches are suspended on one proposal
DispatchCopiesCurrent ==
    /\ \A c \in calls : Get(proposals, c.id) = c.local /\ c.local = c.mlocal
    /\ \A c, d \in calls : c.id = d.id => c = d

ExpirySubmitChoices ==
    { << Payload(<<>>, << Msg(FALSE, FALSE) >>), At(0), At(2) >>,
      << Payload(<< 0 >>, << Msg(FALSE, FALSE) >>), At(0), At(MaxTime + 1) >> }

\* two proposals, the second depending on the first, under every operation
ExpiryNext ==
    \/ \E a \in ExpirySubmitChoices : Submit(a[1], a[2], a[3])
    \/ \E id \in Ids :
           Validate(id, 2, SomeThreshold(from_percent(20), from_percent(20)), TRUE)
    \/ \E id \in Ids, d \in { << 1, 0, 0 >>, << 0, 1, 0 >> }, total \in { 1 } :
           /\ WithinCap(update_vote_result_and_total_voting_power(
                            Get(proposals, id), d[1], d[2], d[3], total), MaxPower)
           /\ UpdateVoteResultAndTotal(id, d[1], d[2], d[3], total)
    \/ \E id \in Ids : FinalizeVoteResult(id)
    \/ \E id \in Ids : Revoke(id)
    \/ \E id \in Ids : Execute(id)
    \/ \E id \in Ids : ForceExecute(id)
    \/ \E c \in calls, o \in { "true", "reject" } : MessageReply(c, o)
    \/ Tick

ExpirySpec == Init /\ [][ExpiryNext]_vars

\* proposal id is Accepted and its expires time has elapsed
AcceptedPastExpiry(id) ==
    /\ Get(proposals, id).state.tag = "Accepted"
    /\ Get(proposals, id).expires.kind = "At"
    /\ now >= Get(proposals, id).expires.t

\* proposal d lists proposal id as its only dependency
DependsOnlyOn(d, id) == payloads[Get(proposals, d).payload_id + 1].depends_on = << id >>

\* execute(d) is refused with DependentProposalNotReady and changes nothing
NotReadyRefused(d) ==
    execute(d) = [P |-> proposals, susp |-> {}, issue |-> <<>>,
                  res |-> "DependentProposalNotReady"]

\* no proposal is, or becomes, Expired, and a proposal that is Accepted past
\* its expires time keeps its record as it is
NeverExpired ==
    \A id \in Ids :
        /\ Get(proposals, id).state.tag # "Expired"
        /\ Get(proposals', id).state.tag # "Expired"
        /\ AcceptedPastExpiry(id) => Get(proposals', id) = Get(proposals, id)

\* C39 (as stated): the state Expired is never entered; a proposal that is
\* Accepted when its expires time elapses remains Accepted forever; every
\* proposal depending on it gets DependentProposalNotReady on every execute
\* attempt.
C39_ExpiredNeverEnteredAllDependents ==
    [][ /\ NeverExpired
        /\ \A id, d \in Ids :
               (AcceptedPastExpiry(id) /\ DependsOnlyOn(d, id)) => NotReadyRefused(d) ]_vars

\* C39: the state Expired is never entered; a proposal that is Accepted when
\* its expires time elapses remains Accepted forever; every proposal
\* depending on it that is itself Accepted and inside its execution window
\* gets DependentProposalNotReady on every execute attempt.
C39_ExpiredNeverEntered ==
    [][ /\ NeverExpired
        /\ \A id, d \in Ids :
               (/\ AcceptedPastExpiry(id)
                /\ DependsOnlyOn(d, id)
                /\ Get(proposals, d).state.tag = "Accepted"
                /\ Get(proposals, d).activates.kind = "At"
                /\ Get(proposals, d).activates.t <= now
                /\ Get(proposals, d).expires.kind = "At"
                /\ Get(proposals, d).expires.t > now)
                   => NotReadyRefused(d) ]_vars

\* proposal 0 is Accepted and expired at 2, the clock is at 3, and proposal
\* 1, which depends on it, is Accepted inside its window
C39_Witness ==
    /\ Len(proposals) = 2
    /\ now = 3
    /\ Get(proposals, 0).state.tag = "Accepted"
    /\ Get(proposals, 0).expires = [kind |-> "At", t |-> 2]
    /\ Get(proposals, 1).state.tag = "Accepted"
    /\ payloads[Get(proposals, 1).payload_id + 1].depends_on = << 0 >>
    /\ Get(proposals, 1).expires = [kind |-> "At", t |-> 4]


\* ------------------------------------------------------------------ C40
\* get_proposal_metadata: the entry of the metadata log at position
\* proposal_id
get_proposal_metadata(proposal_id) ==
    IF proposal_id \in 0 .. (Len(metadatas) - 1)
    THEN [some |-> TRUE, value |-> metadatas[proposal_id + 1]]
    ELSE [some |-> FALSE, value |-> Metadata("", "")]

\* get_proposal_payload: the entry of the payload log at position proposal_id
get_proposal_payload(proposal_id) ==
    IF proposal_id \in 0 .. (Len(payloads) - 1)
    THEN [some |-> TRUE, value |-> payloads[proposal_id + 1]]
    ELSE [some |-> FALSE, value |-> Payload(<<>>, <<>>)]

\* metadata and payload of the store specification
StoreInputs ==
    { << Metadata("first", "description"), Payload(<<>>, << Msg(FALSE, FALSE) >>) >>,
      << Metadata("second", "description"), Payload(<<>>, <<>>) >> }

\* submits that succeed and submits during which an append fails
StoreNext ==
    \/ \E a \in StoreInputs : SubmitProposal(a[1], a[2], At(0), At(MaxTime + 1))
    \/ \E fails \in MemoryFailures, a \in StoreInputs :
           SubmitMemoryError(fails, a[1], a[2], At(0), At(MaxTime + 1))
    \/ \E id \in Ids, a \in VoteValidateChoices : Validate(id, a[1], a[2], a[3])
    \/ Tick

StoreSpec == Init /\ [][StoreNext]_vars

\* the three stores have one entry per proposal, and the proposal with id i
\* points at entry i of the metadata log and of the payload log
StoresAligned ==
    /\ Len(metadatas) = Len(proposals)
    /\ Len(payloads) = Len(proposals)
    /\ \A id \in Ids :
           /\ Get(proposals, id).metadata_id = id
           /\ Get(proposals, id).payload_id = id

\* get_proposal_metadata(i) and get_proposal_payload(i) return the entries
\* submit wrote for proposal i
LookupsReturnSubmitted ==
    \A id \in Ids :
        /\ get_proposal_metadata(id) =
               [some |-> TRUE, value |-> metadatas[Get(proposals, id).metadata_id + 1]]
        /\ get_proposal_payload(id) =
               [some |-> TRUE, value |-> payloads[Get(proposals, id).payload_id + 1]]

\* C40: after every step the proposal with id i has metadata_id = i and
\* payload_id = i, and the metadata log, the payload log and the proposal
\* sequence have equal lengths, so get_proposal_metadata(i) and
\* get_proposal_payload(i) return the entries submit wrote for proposal i;
\* a step that stores no proposal (a submit that returned an error among
\* them) leaves the metadata log and the payload log unchanged.
C40_StoresAlignedAfterErrors ==
    [][ /\ StoresAligned'
        /\ LookupsReturnSubmitted'
        /\ Len(proposals') = Len(proposals)
               => metadatas' = metadatas /\ payloads' = payloads ]_vars

====
